---- MODULE Spec2Model ----
(***************************************************************************)
(* hapi-serve-s3: the `s3` route handler.  One request at a time is        *)
(* followed through the GET (Serve.handler), POST (Upload.handler) and     *)
(* DELETE (Delete.handler) promise chains, against an S3 bucket modelled   *)
(* as a map from (bucket, key) to the stored object's meta data.           *)
(*                                                                         *)
(* Strings that the code takes apart are modelled by their parts:          *)
(*   - a path ('files2/1.pdf') is the sequence of its segments, a segment  *)
(*     being [b |-> basename without extension, e |-> extension];          *)
(*     the empty sequence is the empty string;                             *)
(*   - a content-disposition header is [type, params], params being the    *)
(*     sequence of its [n |-> name, v |-> value] parameters;               *)
(*   - a RegExp is the set of strings it matches.                          *)
(***************************************************************************)
EXTENDS Integers, Sequences, FiniteSets, TLC

\* ------------------------------------------------------------------ bounds
\* largest number of form-data parts in one POST payload
MaxParts == 2

\* ------------------------------------------------------------------ values
\* the JavaScript `undefined` where a string is expected
Undef == "<undefined>"

Seg(b, e) == [b |-> b, e |-> e]

\* no header / `null` / `undefined` / '' for a content-disposition value
NoDisposition == [type |-> "", params |-> <<>>]

\* Path.join of three (possibly empty) paths: empty arguments are skipped
PathJoin(a, b, c) == a \o b \o c

\* Path.dirname; '.' (here <<>>) for a path of one segment
PathDirname(p) == IF Len(p) <= 1 THEN <<>> ELSE SubSeq(p, 1, Len(p) - 1)

\* Path.basename
PathBasename(p) == IF p = <<>> THEN <<>> ELSE <<p[Len(p)]>>

\* Path.extname
PathExtname(p) == IF p = <<>> THEN "" ELSE p[Len(p)].e

\* ------------------------------------------------------------------ errors
\* an error is [status, isBoom]; status 0 is an error without a statusCode
Boom(status) == [status |-> status, isBoom |-> TRUE, none |-> FALSE]

\* an Error that is not a Boom error, as a resolver function may throw
PlainError == [status |-> 0, isBoom |-> FALSE, none |-> FALSE]

BadImplementationError == Boom(500)

\* an error handler that passes the error on as it is
BoomWrap_Keep(err) == err

\* Boom.wrap: a Boom error is kept, anything else becomes a 500
BoomWrap(err) == IF err.isBoom THEN err ELSE Boom(500)

\* Helpers.S3Error: statusCode = error.statusCode || 500
S3Error(statusCode) == Boom(IF statusCode = 0 THEN 500 ELSE statusCode)

\* the `null` first argument of onResponse
NoError == [status |-> 0, isBoom |-> FALSE, none |-> TRUE]

\* the outcome of a step that may fail: a value or an error
Resolved(v) == [ok |-> TRUE, val |-> v, err |-> NoError]

Rejected(e) == [ok |-> FALSE, val |-> Undef, err |-> e]

\* ------------------------------------------------------- helpers (helpers.js)
\* a list entry is a string [re |-> FALSE, val] or a RegExp [re |-> TRUE, lang],
\* lang being the set of values v for which val.test(v) is true
StrEntry(v) == [re |-> FALSE, val |-> v, lang |-> {}]

ReEntry(lang) == [re |-> TRUE, val |-> CHOOSE v \in lang : TRUE, lang |-> lang]

\* an optional list of the route options
NoList == [given |-> FALSE, items |-> <<>>]

List(items) == [given |-> TRUE, items |-> items]

\* Helpers.hasMatch
hasMatch(allowed, item) ==
  IF ~allowed.given THEN FALSE
  ELSE \E i \in 1..Len(allowed.items) :
         LET val == allowed.items[i]
         IN  IF val.re THEN item \in val.lang ELSE val.val = item

\* truthiness of a string value
Truthy(s) == s # Undef /\ s # ""

\* Helpers.getBucket; fn is the outcome of calling the bucket function
getBucket(bucket, fn) ==
  CASE bucket.kind = "string"   -> Resolved(bucket.val)
    [] bucket.kind = "function" -> fn
    [] OTHER -> Rejected(BadImplementationError)

\* a randomizeKey that puts the generated name at the top of the bucket
randomizeKey_Flat(test, key, tok) ==
  IF ~test THEN key ELSE <<Seg(tok, PathExtname(key))>>

\* internals.randomizeKey; tok is the generated random base64url token
randomizeKey(test, key, tok) ==
  IF ~test THEN key
  ELSE PathJoin(PathDirname(key), <<Seg(tok, PathExtname(key))>>, <<>>)

\* a getKey that leaves the path parameter out of the join
getKey_NoPath(key, path, fileKey, randomize, fn, tok) ==
  LET prefix  == IF key.kind = "string" THEN key.val ELSE <<>>
      plain   == IF key.kind = "function" THEN fn
                 ELSE IF prefix = <<>> /\ fileKey = <<>>
                      THEN Rejected(BadImplementationError)
                      ELSE Resolved(PathJoin(prefix, <<>>, fileKey))
  IN  IF plain.ok THEN Resolved(randomizeKey(randomize, plain.val, tok))
      ELSE plain

\* a getKey that joins the path parameter and the file name to the answer of
\* the key function as well
getKey_JoinAll(key, path, fileKey, randomize, fn, tok) ==
  LET prefix  == IF key.kind = "string" THEN key.val ELSE <<>>
      plain   == IF key.kind = "function"
                 THEN (IF fn.ok THEN Resolved(PathJoin(fn.val, path, fileKey)) ELSE fn)
                 ELSE IF prefix = <<>> /\ path = <<>> /\ fileKey = <<>>
                      THEN Rejected(BadImplementationError)
                      ELSE Resolved(PathJoin(prefix, path, fileKey))
  IN  IF plain.ok THEN Resolved(randomizeKey(randomize, plain.val, tok))
      ELSE plain

\* Helpers.getKey; fn is the outcome of calling the key function
getKey(key, path, fileKey, randomize, fn, tok) ==
  LET prefix  == IF key.kind = "string" THEN key.val ELSE <<>>
      postfix == fileKey
      plain   == IF key.kind = "function" THEN fn
                 ELSE IF prefix = <<>> /\ path = <<>> /\ postfix = <<>>
                      THEN Rejected(BadImplementationError)
                      ELSE Resolved(PathJoin(prefix, path, postfix))
  IN  IF plain.ok THEN Resolved(randomizeKey(randomize, plain.val, tok))
      ELSE plain

\* Helpers.getContentType; fn is the outcome of calling the contentType
\* function, optType is options.ContentType
getContentType(contentType, overrideContentTypes, optType, fn) ==
  LET got == CASE contentType.kind = "string"   -> Resolved(contentType.val)
               [] contentType.kind = "function" -> fn
               [] OTHER -> Resolved(optType)
      applyOverrides(type) ==
        IF Truthy(type) /\ type \in DOMAIN overrideContentTypes
        THEN overrideContentTypes[type] ELSE type
  IN  IF got.ok THEN Resolved(applyOverrides(got.val)) ELSE got

\* a getter that answers 'inline' for every GET
getMode_InlineGet(mode, method) ==
  IF method = "get" THEN "inline"
  ELSE IF ~mode.isObject THEN mode.val
  ELSE IF method \in DOMAIN mode.per THEN mode.per[method] ELSE "auto"

\* Schemas.getMode
getMode(mode, method) ==
  IF ~mode.isObject THEN mode.val
  ELSE IF method \in DOMAIN mode.per THEN mode.per[method] ELSE "auto"

\* the value of parameter n of a parsed content-disposition header
\* (<<>> when the header has no such parameter)
RECURSIVE Param(_, _)
Param(params, n) ==
  IF params = <<>> THEN <<>>
  ELSE IF Head(params).n = n THEN Head(params).v
       ELSE Param(Tail(params), n)

\* ContentDisposition(fname, { type }): the header names basename(fname)
ContentDispositionFormat(fname, type) ==
  [type |-> type, params |-> <<[n |-> "filename", v |-> PathBasename(fname)]>>]

\* a filename that falls back to the basename of the key in every mode
getFilename_KeyFallback(filename, mode, key, optFilename, fn) ==
  IF filename THEN fn
  ELSE IF mode = "attachment" \/ mode = "inline" \/ optFilename = <<>>
       THEN Resolved(PathBasename(key))
       ELSE Resolved(optFilename)

\* a filename that is taken from the existing header whatever the mode
getFilename_FromHeader(filename, mode, key, optFilename, fn) ==
  IF filename THEN fn ELSE Resolved(optFilename)

\* internals.getFilename; fn is the outcome of calling the filename function
getFilename(filename, mode, key, optFilename, fn) ==
  IF filename THEN fn
  ELSE IF mode = "attachment" \/ mode = "inline"
       THEN Resolved(PathBasename(key))
       ELSE Resolved(optFilename)

\* whether Helpers.getContentDisposition gets to call the `filename` function:
\* it returns before internals.getFilename when the mode is false
CallsFilename(filenameCfg, mode) == mode # "false" /\ filenameCfg

\* a disposition that keeps its type when there is no filename
getContentDisposition_TypeOnly(filenameCfg, mode, key, header, fn) ==
  IF mode = "false" THEN Resolved(NoDisposition)
  ELSE
    LET parsedType == IF header # NoDisposition /\ header.type \in {"inline", "attachment"}
                      THEN header.type ELSE ""
        filename   == IF header # NoDisposition THEN Param(header.params, "filename")
                      ELSE <<>>
        autoType   == IF mode = "auto" /\ parsedType = "" THEN "attachment"
                      ELSE parsedType
        type       == IF mode # "auto" THEN mode ELSE autoType
        fname      == getFilename(filenameCfg, mode, key, filename, fn)
    IN  IF ~fname.ok THEN fname
        ELSE IF fname.val = <<>> THEN Resolved([type |-> type, params |-> <<>>])
        ELSE Resolved(ContentDispositionFormat(fname.val, type))

\* a disposition whose type never comes from the existing header
getContentDisposition_Attachment(filenameCfg, mode, key, header, fn) ==
  IF mode = "false" THEN Resolved(NoDisposition)
  ELSE
    LET filename == IF header # NoDisposition THEN Param(header.params, "filename")
                    ELSE <<>>
        type     == IF mode # "auto" THEN mode ELSE "attachment"
        fname    == getFilename(filenameCfg, mode, key, filename, fn)
    IN  IF ~fname.ok THEN fname
        ELSE IF fname.val = <<>> THEN Resolved(NoDisposition)
        ELSE Resolved(ContentDispositionFormat(fname.val, type))

\* a disposition that is built whatever the mode
getContentDisposition_AnyMode(filenameCfg, mode, key, header, fn) ==
  LET parsedType == IF header # NoDisposition /\ header.type \in {"inline", "attachment"}
                    THEN header.type ELSE ""
      filename   == IF header # NoDisposition THEN Param(header.params, "filename")
                    ELSE <<>>
      type       == IF mode \in {"inline", "attachment"} THEN mode
                    ELSE IF parsedType = "" THEN "attachment" ELSE parsedType
      fname      == getFilename(filenameCfg /\ mode # "false", mode, key, filename, fn)
  IN  IF ~fname.ok THEN fname
      ELSE IF fname.val = <<>> THEN Resolved(NoDisposition)
      ELSE Resolved(ContentDispositionFormat(fname.val, type))

\* Helpers.getContentDisposition; header is options.ContentDisposition
getContentDisposition(filenameCfg, mode, key, header, fn) ==
  IF mode = "false" THEN Resolved(NoDisposition)
  ELSE
    LET parsedType == IF header # NoDisposition /\ header.type \in {"inline", "attachment"}
                      THEN header.type ELSE ""
        filename   == IF header # NoDisposition THEN Param(header.params, "filename")
                      ELSE <<>>
        autoType   == IF mode = "auto" /\ parsedType = "" THEN "attachment"
                      ELSE parsedType
        type       == IF mode # "auto" THEN mode ELSE autoType
        fname      == getFilename(filenameCfg, mode, key, filename, fn)
    IN  IF ~fname.ok THEN fname
        ELSE IF fname.val = <<>> THEN Resolved(NoDisposition)
        ELSE Resolved(ContentDispositionFormat(fname.val, type))

\* ---------------------------------------------------------- upload (upload.js)
\* a file key that is always the form field name
getFileKey_FormKey(file) == file.key

\* internals.getFileKey
getFileKey(file) ==
  LET cd == file.headers.cd
  IN  IF cd # NoDisposition
      THEN IF Param(cd.params, "filename") # <<>> THEN Param(cd.params, "filename")
           ELSE IF Param(cd.params, "name") # <<>> THEN Param(cd.params, "name")
           ELSE file.key
      ELSE file.key

\* ------------------------------------------------------------- route options
\* the route options after validation against Schemas.routeOptionsSchema
BaseRoute ==
  [ bucket               |-> [kind |-> "string", val |-> "test"],
    key                  |-> [kind |-> "none", val |-> <<>>],
    randomPostKeys       |-> FALSE,
    mode                 |-> [isObject |-> FALSE, val |-> "auto",
                              per |-> [get |-> "auto", post |-> "auto"]],
    filename             |-> FALSE,
    overrideContentTypes |-> [t \in {} |-> ""],
    allowedContentTypes  |-> NoList,
    ignoredFormKeys      |-> NoList,
    contentType          |-> [kind |-> "none", val |-> Undef],
    onResponse           |-> FALSE ]

\* form field names and file names used by the requests
FormKeyOptions == <<Seg("options", "")>>

FormKeyTest == <<Seg("test", "")>>

FormKeyThesis == <<Seg("thesis", "")>>

FormKeyUpload == <<Seg("upload", "")>>

ExistingKey == <<Seg("files2", ""), Seg("1", "pdf")>>

\* lists of allowed content types: /image\/*/, 'application/pdf', undefined
AllowLists ==
  { NoList,
    List(<<ReEntry({"image/png", "image/jpeg"}), StrEntry("application/pdf"),
           StrEntry(Undef)>>),
    List(<<StrEntry("application/pdf")>>) }

\* lists of ignored form keys: ['options', 'test-NF.pdf'] and [/^(opt|thesis)/]
IgnoreLists ==
  { NoList,
    List(<<StrEntry(FormKeyOptions), StrEntry(<<Seg("test-NF", "pdf")>>)>>),
    List(<<ReEntry({FormKeyOptions, FormKeyThesis})>>) }

\* routes that differ in the lists and in the response strategy
ListRoutes ==
  { [BaseRoute EXCEPT !.allowedContentTypes = al, !.ignoredFormKeys = ig,
                      !.onResponse = o] :
      al \in AllowLists, ig \in IgnoreLists, o \in BOOLEAN }

\* routes that differ in how bucket, key, content type and filename resolve
ResolverRoutes ==
  { [BaseRoute EXCEPT !.bucket = [kind |-> "function", val |-> ""],
                      !.key = [kind |-> "function", val |-> <<>>],
                      !.contentType = [kind |-> "function", val |-> Undef],
                      !.overrideContentTypes =
                         [t \in {"application/octet-stream"} |-> "application/pdf"],
                      !.filename = TRUE, !.onResponse = o] : o \in BOOLEAN }
  \cup
  { [BaseRoute EXCEPT !.key = [kind |-> "string", val |-> <<Seg("files2", "")>>],
                      !.mode = [isObject |-> FALSE, val |-> m,
                                per |-> [get |-> "auto", post |-> "auto"]],
                      !.randomPostKeys = r, !.onResponse = TRUE] :
      m \in {"false", "inline"}, r \in BOOLEAN }
  \cup
  { [BaseRoute EXCEPT !.key = [kind |-> "function", val |-> <<>>],
                      !.randomPostKeys = TRUE],
    [BaseRoute EXCEPT !.contentType = [kind |-> "string",
                                       val |-> "application/octet-stream"],
                      !.overrideContentTypes =
                         [t \in {"application/octet-stream"} |-> "application/pdf"]] }

Routes == ListRoutes \cup ResolverRoutes

\* what a configured resolver function may do when called
BucketFnOutcomes == {Resolved("test"), Resolved(""), Rejected(PlainError)}

KeyFnOutcomes ==
  {Resolved(ExistingKey), Resolved(<<Seg("new", "pdf")>>), Resolved(<<>>), Rejected(PlainError)}

ContentTypeFnOutcomes ==
  {Resolved("image/png"), Resolved("application/octet-stream"), Resolved(Undef),
   Rejected(PlainError)}

FilenameFnOutcomes == {Resolved(<<Seg("name", "txt")>>), Resolved(<<>>), Rejected(PlainError)}

\* the outcomes of a setting: those of the function when it is one
Outcomes(isFunction, outcomes) == IF isFunction THEN outcomes ELSE {Resolved(Undef)}

\* generated random tokens
Tokens == {"rnd1", "rnd2"}

\* status codes of the errors the S3 client reports (0: no statusCode)
S3ErrorStatuses == {0, 403}

\* ------------------------------------------------------------------ requests
NoHeaders == [ct |-> Undef, cd |-> NoDisposition]

FileHeaders(name, filename, type) ==
  [ct |-> type,
   cd |-> [type |-> "form-data",
           params |-> <<[n |-> "name", v |-> name], [n |-> "filename", v |-> filename]>>]]

\* the form-data parts a payload is made of, as `getFiles` lists them
PartCatalogue ==
  << [key |-> FormKeyTest,
      headers |-> FileHeaders(FormKeyTest, <<Seg("test-NF", "pdf")>>, "application/pdf")],
     [key |-> ExistingKey, headers |-> NoHeaders],
     [key |-> FormKeyOptions, headers |-> NoHeaders],
     [key |-> FormKeyThesis,
      headers |-> FileHeaders(FormKeyThesis, <<Seg("thesis", "latex")>>, "application/x-latex")],
     \* a file input left empty: a file part whose filename is ''
     [key |-> FormKeyUpload, headers |-> FileHeaders(FormKeyUpload, <<>>, "application/pdf")] >>

\* the parts with the given catalogue indexes, in catalogue order
RECURSIVE PartsFrom(_, _)
PartsFrom(idx, from) ==
  IF from > Len(PartCatalogue) THEN <<>>
  ELSE (IF from \in idx THEN <<PartCatalogue[from]>> ELSE <<>>) \o PartsFrom(idx, from + 1)

Payloads ==
  { PartsFrom(idx, 1) : idx \in {i \in SUBSET (1..Len(PartCatalogue)) : Cardinality(i) <= MaxParts} }

\* values of the `path` route parameter ('' when the route has none)
Paths == {<<>>, <<Seg("1", "pdf")>>, ExistingKey}

\* values of the request's content-type header
RequestContentTypes == {Undef, "multipart/form-data", "application/json"}

NoRequest ==
  [method |-> "none", route |-> BaseRoute, path |-> <<>>, contentType |-> Undef,
   payload |-> <<>>]

\* the objects of the bucket before the first request
FixtureStore ==
  [t \in {<<"test", ExistingKey>>} |->
     [ContentType |-> "application/octet-stream",
      ContentDisposition |-> ContentDispositionFormat(<<Seg("test-1", "pdf")>>, "attachment")]]

\* --------------------------------------------------------------------- state
VARIABLES
  store,    \* the bucket: (bucket, key) -> meta data of the stored object
  req,      \* the request being handled
  chain,    \* state of the handler's promise chain
  chainErr, \* the rejection the chain's catch handler will receive
  files,    \* POST: per part, how far its sub-pipeline is and what it resolved
  one,      \* GET, DELETE: how far the pipeline is and what it resolved
  calls,    \* the S3 calls issued and the filename resolver calls made for the request
  replies,  \* the calls of the response strategy, in order
  history   \* the requests handled before this one, oldest first

vars == <<store, req, chain, chainErr, files, one, calls, replies, history>>

\* a part before its sub-pipeline starts; answer is what the filename function
\* resolved with (<<>>: nothing, or it was not called); failedAt names the function whose
\* rejection ended the sub-pipeline, lookup is what the existence lookup
\* reported (0: not yet made, 200: the object's meta data, else the status of
\* the error); done is the rank of the part among the uploads in the order
\* their s3.upload callbacks ran (0: not stored)
NewFile(file) ==
  [file |-> file, stage |-> "file", bucket |-> "", key |-> <<>>, type |-> Undef,
   disposition |-> NoDisposition, err |-> NoError, failedAt |-> "", lookup |-> 0,
   answer |-> <<>>, done |-> 0]

\* the promise of internals.getObjectStream and the events of its s3.getObject
\* request: state of the promise ("none": no request sent, "sent": pending,
\* "resolved", "rejected"), the event among 'error' and 'httpHeaders' that
\* arrived first, the status of the headers (0: none yet), the statusCode of
\* the error event (-1: no error event, 0: an error without statusCode), the
\* chunks written to the passthrough stream and the event that ended it
NoFetch ==
  [state |-> "none", first |-> "", headers |-> 0, error |-> -1, chunks |-> 0,
   endedBy |-> ""]

NewOne ==
  [bucket |-> "", key |-> <<>>, type |-> Undef, disposition |-> NoDisposition,
   optType |-> Undef, optDisposition |-> NoDisposition, lookup |-> 0, outcome |-> -1,
   answer |-> <<>>, fetch |-> NoFetch]

Init ==
  /\ store = FixtureStore
  /\ req = NoRequest
  /\ chain = "idle"
  /\ chainErr = NoError
  /\ files = <<>>
  /\ one = NewOne
  /\ calls = {}
  /\ replies = <<>>
  /\ history = <<>>

\* the framework calls the handler of the route with a request;
\* Upload.handler starts with getFiles
Receive ==
  /\ chain = "idle"
  /\ \E method \in {"get", "post", "delete"}, route \in Routes, path \in Paths,
        ct \in RequestContentTypes, payload \in Payloads :
       /\ method # "post" => (payload = <<>> /\ ct = Undef)
       \* only a multipart payload has parts that carry headers
       /\ ct # "multipart/form-data" =>
            \A i \in 1..Len(payload) : payload[i].headers = NoHeaders
       /\ req' = [method |-> method, route |-> route, path |-> path,
                  contentType |-> ct, payload |-> payload]
       /\ files' = [i \in 1..Len(payload) |-> NewFile(payload[i])]
       /\ chain' = IF method = "post" THEN "prepareFiles" ELSE "getBucketAndKey"
  /\ UNCHANGED <<history, store, chainErr, one, calls, replies>>

\* ------------------------------------------------------------------------ S3
\* 200: the bucket answers from its contents; otherwise the call fails with
\* an error of that statusCode
S3Outcomes == {200} \cup S3ErrorStatuses

\* s3.headObject wrapped by Helpers.getObjectMetaData
getObjectMetaData(objects, bucket, key, outcome) ==
  IF bucket = "" \/ key = <<>> THEN Rejected(BadImplementationError)
  ELSE IF outcome # 200 THEN Rejected(S3Error(outcome))
  ELSE IF <<bucket, key>> \in DOMAIN objects THEN Resolved(objects[<<bucket, key>>])
  ELSE Rejected(S3Error(404))

\* helpers that pass every bucket and key on to S3
IssuesCall_Always(bucket, key) == TRUE

\* whether a call of the helper reaches S3
IssuesCall(bucket, key) == bucket # "" /\ key # <<>>

\* an S3 call as recorded: the operation, the part it is for (0 for GET and
\* DELETE), the target and, for an upload, the meta data parameters
Call(op, part, bucket, key, type, disposition) ==
  [op |-> op, part |-> part, bucket |-> bucket, key |-> key,
   ContentType |-> type, ContentDisposition |-> disposition]

\* the invocations of the configured bucket and key functions made by one
\* getBucketAndKey, recorded with what each resolved with ("" and <<>> when
\* it rejected)
BucketAndKeyCalls(part, bfn, kfn) ==
  (IF req.route.bucket.kind = "function"
   THEN {Call("bucket", part, IF bfn.ok THEN bfn.val ELSE "", <<>>, Undef, NoDisposition)}
   ELSE {})
  \cup
  (IF req.route.key.kind = "function"
   THEN {Call("key", part, "", IF kfn.ok THEN kfn.val ELSE <<>>, Undef, NoDisposition)}
   ELSE {})

\* the invocation of the configured contentType function made by one
\* getContentDispositionAndType, recorded with what it resolved with
ContentTypeCalls(part, bucket, key, cfn) ==
  IF req.route.contentType.kind = "function"
  THEN {Call("contentType", part, bucket, key, IF cfn.ok THEN cfn.val ELSE Undef,
             NoDisposition)}
  ELSE {}

\* a rejection that runs the catch handler of the chain for every failing part
FailFile_Every(i, err, at, stageNow, lookup) ==
  /\ files' = [files EXCEPT ![i].stage = "failed", ![i].err = err, ![i].failedAt = at,
                            ![i].lookup = lookup]
  /\ chain' = "rejected"
  /\ chainErr' = err

\* ------------------------------------------------- Upload.handler (upload.js)
\* the rejection of part i's sub-pipeline: Promise.all rejects with the first
\* rejection it sees, later ones are dropped
FailFile(i, err, at, stageNow, lookup) ==
  /\ files' = [files EXCEPT ![i].stage = "failed", ![i].err = err, ![i].failedAt = at,
                            ![i].lookup = lookup]
  /\ chain' = IF chain = stageNow THEN "rejected" ELSE chain
  /\ chainErr' = IF chain = stageNow THEN err ELSE chainErr

\* getBucketAndKey
GetBucketAndKey(i) ==
  /\ req.method = "post"
  /\ files[i].stage = "file"
  /\ \E bfn \in Outcomes(req.route.bucket.kind = "function", BucketFnOutcomes),
        kfn \in Outcomes(req.route.key.kind = "function", KeyFnOutcomes),
        tok \in IF req.route.randomPostKeys THEN Tokens ELSE {""} :
       LET fileKey == getFileKey(files[i].file)
           bucket  == getBucket(req.route.bucket, bfn)
           key     == getKey(req.route.key, req.path, fileKey,
                             req.route.randomPostKeys, kfn, tok)
       IN  /\ calls' = calls \cup BucketAndKeyCalls(i, bfn, kfn)
           /\ IF bucket.ok /\ key.ok
              THEN /\ files' = [files EXCEPT ![i].stage = "resolved",
                                             ![i].bucket = bucket.val, ![i].key = key.val]
                   /\ UNCHANGED <<chain, chainErr>>
              ELSE FailFile(i, IF bucket.ok THEN key.err ELSE bucket.err,
                            "getBucketAndKey", "prepareFiles", 0)
  /\ UNCHANGED <<history, store, req, one, replies>>

\* a catch handler that swallows every rejection, the conflict included
assertObjectDoesNotExist_CatchAll(meta) == Resolved(Undef)

\* the `.then(...).catch(...)` of assertObjectDoesNotExist applied to the
\* outcome of Helpers.getObjectMetaData
assertObjectDoesNotExist(meta) ==
  IF meta.ok THEN Rejected(Boom(409))
  ELSE IF meta.err.isBoom /\ meta.err.status = 404 THEN Resolved(Undef)
  ELSE Rejected(meta.err)

\* assertObjectDoesNotExist
AssertObjectDoesNotExist(i) ==
  /\ req.method = "post"
  /\ files[i].stage = "resolved"
  /\ \E outcome \in S3Outcomes :
       LET f     == files[i]
           meta  == getObjectMetaData(store, f.bucket, f.key, outcome)
           check == assertObjectDoesNotExist(meta)
           seen  == IF ~IssuesCall(f.bucket, f.key) THEN 0
                    ELSE IF meta.ok THEN 200 ELSE meta.err.status
       IN  /\ calls' = IF IssuesCall(f.bucket, f.key)
                       THEN calls \cup {Call("headObject", i, f.bucket, f.key,
                                              Undef, NoDisposition)}
                       ELSE calls
           /\ IF check.ok
              THEN /\ files' = [files EXCEPT ![i].stage = "checked", ![i].lookup = seen]
                   /\ UNCHANGED <<chain, chainErr>>
              ELSE FailFile(i, check.err, "assertObjectDoesNotExist", "prepareFiles", seen)
  /\ UNCHANGED <<history, store, req, one, replies>>

\* a getContentDispositionAndType that does not wait for the existence lookup
GetContentDispositionAndType_Early(i) ==
  /\ req.method = "post"
  /\ files[i].stage \in {"resolved", "checked"}
  /\ LET f    == files[i]
         mode == getMode(req.route.mode, "post")
     IN  \E cfn \in Outcomes(req.route.contentType.kind = "function", ContentTypeFnOutcomes),
            ffn \in Outcomes(CallsFilename(req.route.filename, mode), FilenameFnOutcomes) :
           LET type == getContentType(req.route.contentType, req.route.overrideContentTypes,
                                      f.file.headers.ct, cfn)
               disposition == getContentDisposition(req.route.filename, mode, f.key,
                                                    f.file.headers.cd, ffn)
           IN  /\ calls' = calls \cup ContentTypeCalls(i, f.bucket, f.key, cfn) \cup
                             IF CallsFilename(req.route.filename, mode)
                             THEN {Call("filename", i, f.bucket, f.key,
                                        Undef, NoDisposition)}
                             ELSE {}
               /\ IF type.ok /\ disposition.ok
                  THEN /\ files' = [files EXCEPT ![i].stage = "typed", ![i].type = type.val,
                                                 ![i].disposition = disposition.val,
                                                 ![i].answer =
                                                    IF CallsFilename(req.route.filename, mode)
                                                    THEN ffn.val ELSE <<>>]
                       /\ UNCHANGED <<chain, chainErr>>
                  ELSE FailFile(i, IF type.ok THEN disposition.err ELSE type.err,
                                "getContentDispositionAndType", "prepareFiles", f.lookup)
  /\ UNCHANGED <<history, store, req, one, replies>>

\* getContentDispositionAndType
GetContentDispositionAndType(i) ==
  /\ req.method = "post"
  /\ files[i].stage = "checked"
  /\ LET f    == files[i]
         mode == getMode(req.route.mode, "post")
     IN  \E cfn \in Outcomes(req.route.contentType.kind = "function", ContentTypeFnOutcomes),
            ffn \in Outcomes(CallsFilename(req.route.filename, mode), FilenameFnOutcomes) :
           LET type == getContentType(req.route.contentType, req.route.overrideContentTypes,
                                      f.file.headers.ct, cfn)
               disposition == getContentDisposition(req.route.filename, mode, f.key,
                                                    f.file.headers.cd, ffn)
           IN  /\ calls' = calls \cup ContentTypeCalls(i, f.bucket, f.key, cfn) \cup
                             IF CallsFilename(req.route.filename, mode)
                             THEN {Call("filename", i, f.bucket, f.key,
                                        Undef, NoDisposition)}
                             ELSE {}
               /\ IF type.ok /\ disposition.ok
                  THEN /\ files' = [files EXCEPT ![i].stage = "typed", ![i].type = type.val,
                                                 ![i].disposition = disposition.val,
                                                 ![i].answer =
                                                    IF CallsFilename(req.route.filename, mode)
                                                    THEN ffn.val ELSE <<>>]
                       /\ UNCHANGED <<chain, chainErr>>
                  ELSE FailFile(i, IF type.ok THEN disposition.err ELSE type.err,
                                "getContentDispositionAndType", "prepareFiles", f.lookup)
  /\ UNCHANGED <<history, store, req, one, replies>>

\* a validation without the check of the content type
assertUploadIsValid_NoAllowList(request, file, type) ==
  IF ~Truthy(request.contentType) THEN Rejected(Boom(422))
  ELSE IF request.contentType # "multipart/form-data" THEN Rejected(Boom(415))
  ELSE IF hasMatch(request.route.ignoredFormKeys, file.key) THEN Resolved("null")
  ELSE Resolved("file")

\* assertUploadIsValid: rejected, or resolved with `null` (val = "null") for an
\* ignored part, or with the file (val = "file")
assertUploadIsValid(request, file, type) ==
  IF ~Truthy(request.contentType) THEN Rejected(Boom(422))
  ELSE IF request.contentType # "multipart/form-data" THEN Rejected(Boom(415))
  ELSE IF request.route.allowedContentTypes.given
          /\ ~hasMatch(request.route.allowedContentTypes, type)
       THEN Rejected(Boom(415))
  ELSE IF hasMatch(request.route.ignoredFormKeys, file.key) THEN Resolved("null")
  ELSE Resolved("file")

\* assertUploadIsValid
AssertUploadIsValid(i) ==
  /\ req.method = "post"
  /\ files[i].stage = "typed"
  /\ LET valid == assertUploadIsValid(req, files[i].file, files[i].type)
     IN  IF valid.ok
         THEN /\ files' = [files EXCEPT ![i].stage =
                                  IF valid.val = "null" THEN "dropped" ELSE "valid"]
              /\ UNCHANGED <<chain, chainErr>>
         ELSE FailFile(i, valid.err, "assertUploadIsValid", "prepareFiles",
                       files[i].lookup)
  /\ UNCHANGED <<history, store, req, one, calls, replies>>

\* the parameters uploadStream passes to s3.upload
UploadParams(f) ==
  [ContentType |-> IF Truthy(f.type) THEN f.type ELSE Undef,
   ContentDisposition |-> f.disposition]

\* uploadFiles, run on the parts prepareFiles resolved with: the `null` results
\* are filtered out and the upload of every remaining part is started
UploadFilesWhen(prepared) ==
  /\ chain = "prepareFiles"
  /\ prepared
  /\ LET kept == {i \in DOMAIN files : files[i].stage = "valid"}
         bad  == {i \in kept : ~IssuesCall(files[i].bucket, files[i].key)}
     IN  /\ files' = [i \in DOMAIN files |->
                        IF i \in bad
                          THEN [files[i] EXCEPT !.stage = "failed",
                                                !.err = BadImplementationError,
                                                !.failedAt = "uploadStream"]
                        ELSE IF i \in kept THEN [files[i] EXCEPT !.stage = "uploading"]
                        ELSE files[i]]
         /\ calls' = calls \cup
                      { Call("upload", i, files[i].bucket, files[i].key,
                             UploadParams(files[i]).ContentType,
                             UploadParams(files[i]).ContentDisposition) : i \in kept \ bad }
         /\ chain' = IF bad # {} THEN "rejected" ELSE "uploadFiles"
         /\ chainErr' = IF bad # {} THEN BadImplementationError ELSE chainErr
  /\ UNCHANGED <<history, store, req, one, replies>>

\* uploads that start as soon as one part is validated
UploadFiles_Eager ==
  UploadFilesWhen(\E i \in DOMAIN files : files[i].stage = "valid")

\* the `.then(uploadFiles)` after prepareFiles: the Promise.all of prepareFiles
\* resolves once the sub-pipeline of every part has resolved
UploadFiles ==
  UploadFilesWhen(\A i \in DOMAIN files : files[i].stage \in {"valid", "dropped"})

\* the content type S3 records for an object uploaded without one
DefaultContentType == "application/octet-stream"

\* the object s3.upload writes
StoredObject(params) ==
  [ContentType |-> IF params.ContentType = Undef THEN DefaultContentType
                   ELSE params.ContentType,
   ContentDisposition |-> params.ContentDisposition]

\* an upload whose failure removes what the sibling parts have stored
UploadStream_Rollback(i) ==
  /\ req.method = "post"
  /\ files[i].stage = "uploading"
  /\ \E outcome \in S3Outcomes :
       IF outcome = 200
       THEN /\ store' = [t \in DOMAIN store \cup {<<files[i].bucket, files[i].key>>} |->
                           IF t = <<files[i].bucket, files[i].key>>
                           THEN StoredObject(UploadParams(files[i])) ELSE store[t]]
            /\ files' = [files EXCEPT
                           ![i].stage = "stored",
                           ![i].done = 1 + Cardinality({j \in DOMAIN files :
                                                          files[j].stage = "stored"})]
            /\ UNCHANGED <<chain, chainErr>>
       ELSE /\ FailFile(i, S3Error(outcome), "uploadStream", "uploadFiles", files[i].lookup)
            /\ store' = [t \in DOMAIN store \
                             {<<files[j].bucket, files[j].key>> :
                                j \in {k \in DOMAIN files : files[k].stage = "stored"}} |->
                           store[t]]
  /\ UNCHANGED <<history, req, one, calls, replies>>

\* the callback of s3.upload in internals.uploadStream
UploadStream(i) ==
  /\ req.method = "post"
  /\ files[i].stage = "uploading"
  /\ \E outcome \in S3Outcomes :
       IF outcome = 200
       THEN /\ store' = [t \in DOMAIN store \cup {<<files[i].bucket, files[i].key>>} |->
                           IF t = <<files[i].bucket, files[i].key>>
                           THEN StoredObject(UploadParams(files[i])) ELSE store[t]]
            /\ files' = [files EXCEPT
                           ![i].stage = "stored",
                           ![i].done = 1 + Cardinality({j \in DOMAIN files :
                                                          files[j].stage = "stored"})]
            /\ UNCHANGED <<chain, chainErr>>
       ELSE /\ FailFile(i, S3Error(outcome), "uploadStream", "uploadFiles", files[i].lookup)
            /\ UNCHANGED store
  /\ UNCHANGED <<history, req, one, calls, replies>>

\* ------------------------------------------------------- response strategies
NullResult == [kind |-> "null"]

NullOptions == [kind |-> "null"]

NoOptions == [kind |-> "undefined"]

\* a call of `onResponse(error, res, request, reply, options)`
OnResponse(error, res, options) ==
  [via |-> "onResponse", error |-> error, res |-> res, options |-> options, code |-> 0,
   type |-> Undef, disposition |-> NoDisposition]

\* a call of `reply(res)`, with the status code the response ends up with and
\* the Content-Type and Content-Disposition headers set on it
Reply(error, res, code, type, disposition) ==
  [via |-> "reply", error |-> error, res |-> res, options |-> NoOptions, code |-> code,
   type |-> type, disposition |-> disposition]

\* whether the call of onResponse throws (a default reply never does)
ThrowChoices(route) == IF route.onResponse THEN BOOLEAN ELSE {FALSE}

\* upload data whose key comes from a second run of the randomization
UploadData_Again(f) ==
  [Bucket |-> f.bucket, Key |-> randomizeKey(req.route.randomPostKeys, f.key, "rnd1")]

\* the data s3.upload resolves with
UploadData(f) == [Bucket |-> f.bucket, Key |-> f.key]

\* an entry that reports the content type the part declared
ResponseEntry_Declared(f) ==
  LET merged == [Bucket |-> f.bucket, Key |-> f.key,
                 ContentType |-> f.file.headers.ct, ContentDisposition |-> f.disposition]
      keys   == {"Bucket", "Key"}
                  \cup (IF f.file.headers.ct # Undef THEN {"ContentType"} ELSE {})
                  \cup (IF f.disposition # NoDisposition THEN {"ContentDisposition"} ELSE {})
  IN  [k \in keys |-> merged[k]]

\* Helpers.compactObject of the upload data merged with ContentType and
\* ContentDisposition: the keys holding `null` or `undefined` are left out
ResponseEntry(f) ==
  LET merged == [Bucket |-> UploadData(f).Bucket, Key |-> UploadData(f).Key,
                 ContentType |-> f.type, ContentDisposition |-> f.disposition]
      keys   == {"Bucket", "Key"}
                  \cup (IF f.type # Undef THEN {"ContentType"} ELSE {})
                  \cup (IF f.disposition # NoDisposition THEN {"ContentDisposition"} ELSE {})
  IN  [k \in keys |-> merged[k]]

\* the `payload` replyCreated builds: one entry per upload, under file.key
\* (a later upload replaces an earlier one with the same form key)
CreatedPayload(uploads) ==
  LET keys == {uploads[i].file.key : i \in 1..Len(uploads)}
      last(k) == CHOOSE i \in 1..Len(uploads) :
                   /\ uploads[i].file.key = k
                   /\ \A j \in 1..Len(uploads) : uploads[j].file.key = k => j <= i
  IN  [k \in keys |-> ResponseEntry(uploads[last(k)])]

\* options whose uploads are listed in the order the uploads completed in
CreatedOptions_ByCompletion(uploads) ==
  LET nth(i) == CHOOSE k \in 1..Len(uploads) :
                  Cardinality({j \in 1..Len(uploads) : uploads[j].done < uploads[k].done})
                    = i - 1
  IN
  [kind |-> "post",
   uploads |-> [i \in 1..Len(uploads) |->
                  LET f    == uploads[nth(i)]
                      full == [file |-> f.file.key, bucket |-> f.bucket, key |-> f.key,
                               contentType |-> f.type, contentDisposition |-> f.disposition,
                               data |-> CreatedPayload(uploads)[f.file.key]]
                      keys == {"file", "bucket", "key", "data"}
                                \cup (IF f.type # Undef THEN {"contentType"} ELSE {})
                                \cup (IF f.disposition # NoDisposition
                                      THEN {"contentDisposition"} ELSE {})
                  IN  [k \in keys |-> full[k]]],
   defaultStatusCode |-> 201]

\* the `options` replyCreated passes to onResponse
CreatedOptions(uploads) ==
  [kind |-> "post",
   uploads |-> [i \in 1..Len(uploads) |->
                  LET f    == uploads[i]
                      full == [file |-> f.file.key, bucket |-> f.bucket, key |-> f.key,
                               contentType |-> f.type, contentDisposition |-> f.disposition,
                               data |-> CreatedPayload(uploads)[f.file.key]]
                      keys == {"file", "bucket", "key", "data"}
                                \cup (IF f.type # Undef THEN {"contentType"} ELSE {})
                                \cup (IF f.disposition # NoDisposition
                                      THEN {"contentDisposition"} ELSE {})
                  IN  [k \in keys |-> full[k]]],
   defaultStatusCode |-> 201]

\* a strategy invoked from a `.then` handler: when it throws, the chain's
\* catch handler runs next
Strategy(call, throws) ==
  /\ replies' = Append(replies, call)
  /\ chain' = IF throws THEN "rejected" ELSE "done"
  /\ chainErr' = IF throws THEN PlainError ELSE chainErr

\* a replyCreated that runs as soon as one upload has resolved
ReplyCreated_Early ==
  /\ chain = "uploadFiles"
  /\ \E i \in DOMAIN files : files[i].stage = "stored"
  /\ LET uploads == SelectSeq(files, LAMBDA f : f.stage = "stored")
         payload == [kind |-> "payload", payload |-> CreatedPayload(uploads)]
     IN  \E throws \in ThrowChoices(req.route) :
           Strategy(IF req.route.onResponse
                    THEN OnResponse(NoError, payload, CreatedOptions(uploads))
                    ELSE Reply(NoError, payload, 201, Undef, NoDisposition), throws)
  /\ UNCHANGED <<history, store, req, files, one, calls>>

\* a replyCreated that looks at the content type of the request first
ReplyCreated_Validate ==
  /\ chain = "uploadFiles"
  /\ \A i \in DOMAIN files : files[i].stage \in {"stored", "dropped"}
  /\ IF req.contentType = "multipart/form-data"
     THEN LET uploads == SelectSeq(files, LAMBDA f : f.stage = "stored")
              payload == [kind |-> "payload", payload |-> CreatedPayload(uploads)]
          IN  \E throws \in ThrowChoices(req.route) :
                Strategy(IF req.route.onResponse
                         THEN OnResponse(NoError, payload, CreatedOptions(uploads))
                         ELSE Reply(NoError, payload, 201, Undef, NoDisposition), throws)
     ELSE /\ replies' = Append(replies, Reply(Boom(415), NullResult, 415, Undef,
                                             NoDisposition))
          /\ chain' = "done"
          /\ UNCHANGED chainErr
  /\ UNCHANGED <<history, store, req, files, one, calls>>

\* replyCreated, once uploadFiles has resolved
ReplyCreated ==
  /\ chain = "uploadFiles"
  /\ \A i \in DOMAIN files : files[i].stage \in {"stored", "dropped"}
  /\ LET uploads == SelectSeq(files, LAMBDA f : f.stage = "stored")
         payload == [kind |-> "payload", payload |-> CreatedPayload(uploads)]
     IN  \E throws \in ThrowChoices(req.route) :
           Strategy(IF req.route.onResponse
                    THEN OnResponse(NoError, payload, CreatedOptions(uploads))
                    ELSE Reply(NoError, payload, 201, Undef, NoDisposition), throws)
  /\ UNCHANGED <<history, store, req, files, one, calls>>

\* an error handler that always uses the default reply
ReplyWithError_DefaultOnly ==
  /\ req.method \in {"post", "delete"}
  /\ chain = "rejected"
  /\ replies' = Append(replies, Reply(BoomWrap(chainErr), NullResult,
                                      BoomWrap(chainErr).status, Undef, NoDisposition))
  /\ chain' = "done"
  /\ UNCHANGED <<history, store, req, chainErr, files, one, calls>>

\* a catch handler that ends the request without invoking the response strategy
ReplyWithError_Swallow ==
  /\ req.method \in {"post", "delete"}
  /\ chain = "rejected"
  /\ chain' = "done"
  /\ UNCHANGED <<history, store, req, chainErr, files, one, calls, replies>>

\* Helpers.replyWithError, the catch handler of Upload.handler and Delete.handler
ReplyWithError ==
  /\ req.method \in {"post", "delete"}
  /\ chain = "rejected"
  /\ LET error == BoomWrap(chainErr)
     IN  replies' = Append(replies,
                           IF req.route.onResponse
                           THEN OnResponse(error, NullResult, NullOptions)
                           ELSE Reply(error, NullResult, error.status, Undef, NoDisposition))
  /\ chain' = "done"
  /\ UNCHANGED <<history, store, req, chainErr, files, one, calls>>

\* -------------------------------------- Serve.handler (serve.js), Delete.handler
\* `one` also records what the s3.deleteObject call of a DELETE reported
\* (outcome; -1: no call made, 200: success, 0: an error without statusCode,
\* else the statusCode of the error)
\* a rejection in the chain of a GET or DELETE: the catch handler runs next
RejectOne(err) ==
  /\ chain' = "rejected"
  /\ chainErr' = err
  /\ UNCHANGED one

\* a getBucketAndKey of Serve.handler and Delete.handler that randomizes the key
\* as the POST does
GetBucketAndKeyOne_Random(next) ==
  /\ chain = "getBucketAndKey"
  /\ \E bfn \in Outcomes(req.route.bucket.kind = "function", BucketFnOutcomes),
        kfn \in Outcomes(req.route.key.kind = "function", KeyFnOutcomes),
        tok \in Tokens :
       LET bucket == getBucket(req.route.bucket, bfn)
           key    == getKey(req.route.key, req.path, <<>>, req.route.randomPostKeys, kfn, tok)
       IN  /\ calls' = calls \cup BucketAndKeyCalls(0, bfn, kfn)
           /\ IF bucket.ok /\ key.ok
              THEN /\ one' = [one EXCEPT !.bucket = bucket.val, !.key = key.val]
                   /\ chain' = next
                   /\ UNCHANGED chainErr
              ELSE RejectOne(IF bucket.ok THEN key.err ELSE bucket.err)
  /\ UNCHANGED <<history, store, req, files, replies>>

\* getBucketAndKey of Serve.handler and Delete.handler: Helpers.getKey is called
\* without options
GetBucketAndKeyOne(next) ==
  /\ chain = "getBucketAndKey"
  /\ \E bfn \in Outcomes(req.route.bucket.kind = "function", BucketFnOutcomes),
        kfn \in Outcomes(req.route.key.kind = "function", KeyFnOutcomes) :
       LET bucket == getBucket(req.route.bucket, bfn)
           key    == getKey(req.route.key, req.path, <<>>, FALSE, kfn, "")
       IN  /\ calls' = calls \cup BucketAndKeyCalls(0, bfn, kfn)
           /\ IF bucket.ok /\ key.ok
              THEN /\ one' = [one EXCEPT !.bucket = bucket.val, !.key = key.val]
                   /\ chain' = next
                   /\ UNCHANGED chainErr
              ELSE RejectOne(IF bucket.ok THEN key.err ELSE bucket.err)
  /\ UNCHANGED <<history, store, req, files, replies>>

ServeGetBucketAndKey ==
  /\ req.method = "get"
  /\ GetBucketAndKeyOne("getObjectMetaData")

\* a lookup whose "not found" does not stop the chain
ServeGetObjectMetaData_Lenient ==
  /\ req.method = "get"
  /\ chain = "getObjectMetaData"
  /\ \E outcome \in S3Outcomes :
       LET meta == getObjectMetaData(store, one.bucket, one.key, outcome)
       IN  /\ calls' = calls \cup {Call("headObject", 0, one.bucket, one.key,
                                         Undef, NoDisposition)}
           /\ one' = [one EXCEPT !.lookup = IF meta.ok THEN 200 ELSE meta.err.status]
           /\ chain' = "getContentDispositionAndType"
           /\ UNCHANGED chainErr
  /\ UNCHANGED <<history, store, req, files, replies>>

\* getObjectMetaData of Serve.handler
ServeGetObjectMetaData ==
  /\ req.method = "get"
  /\ chain = "getObjectMetaData"
  /\ \E outcome \in S3Outcomes :
       LET meta == getObjectMetaData(store, one.bucket, one.key, outcome)
       IN  /\ calls' = IF IssuesCall(one.bucket, one.key)
                       THEN calls \cup {Call("headObject", 0, one.bucket, one.key,
                                              Undef, NoDisposition)}
                       ELSE calls
           /\ IF meta.ok
              THEN /\ one' = [one EXCEPT !.optType = meta.val.ContentType,
                                         !.optDisposition = meta.val.ContentDisposition,
                                         !.lookup = 200]
                   /\ chain' = "getContentDispositionAndType"
                   /\ UNCHANGED chainErr
              ELSE /\ chain' = "rejected"
                   /\ chainErr' = meta.err
                   /\ one' = [one EXCEPT !.lookup = IF IssuesCall(one.bucket, one.key)
                                                     THEN meta.err.status ELSE 0]
  /\ UNCHANGED <<history, store, req, files, replies>>

\* getContentDispositionAndType of Serve.handler
ServeGetContentDispositionAndType ==
  /\ req.method = "get"
  /\ chain = "getContentDispositionAndType"
  /\ LET mode == getMode(req.route.mode, "get")
     IN  \E cfn \in Outcomes(req.route.contentType.kind = "function", ContentTypeFnOutcomes),
            ffn \in Outcomes(CallsFilename(req.route.filename, mode), FilenameFnOutcomes) :
           LET type == getContentType(req.route.contentType, req.route.overrideContentTypes,
                                      one.optType, cfn)
               disposition == getContentDisposition(req.route.filename, mode, one.key,
                                                    one.optDisposition, ffn)
           IN  /\ calls' = calls \cup ContentTypeCalls(0, one.bucket, one.key, cfn) \cup
                             IF CallsFilename(req.route.filename, mode)
                             THEN {Call("filename", 0, one.bucket, one.key,
                                        Undef, NoDisposition)}
                             ELSE {}
               /\ IF type.ok /\ disposition.ok
                  THEN /\ one' = [one EXCEPT !.type = type.val,
                                             !.disposition = disposition.val,
                                             !.answer =
                                                IF CallsFilename(req.route.filename, mode)
                                                THEN ffn.val ELSE <<>>]
                       /\ chain' = "getObjectStream"
                       /\ UNCHANGED chainErr
                  ELSE RejectOne(IF type.ok THEN disposition.err ELSE type.err)
  /\ UNCHANGED <<history, store, req, files, replies>>

\* internals.getObjectStream of serve.js: an `error` event rejects with the
\* wrapped error, response headers with a status >= 400 with that status
getObjectStream(objects, bucket, key, outcome) ==
  IF bucket = "" \/ key = <<>> THEN Rejected(BadImplementationError)
  ELSE IF outcome = 0 THEN Rejected(S3Error(outcome))
  ELSE IF outcome # 200 THEN Rejected(Boom(outcome))
  ELSE IF <<bucket, key>> \in DOMAIN objects
       THEN Resolved([kind |-> "stream", bucket |-> bucket, key |-> key])
       ELSE Rejected(Boom(404))

\* getObjectStream of Serve.handler
ServeGetObjectStream ==
  /\ req.method = "get"
  /\ chain = "getObjectStream"
  /\ \E outcome \in S3Outcomes :
       LET data == getObjectStream(store, one.bucket, one.key, outcome)
       IN  /\ calls' = IF IssuesCall(one.bucket, one.key)
                       THEN calls \cup {Call("getObject", 0, one.bucket, one.key,
                                              Undef, NoDisposition)}
                       ELSE calls
           /\ IF data.ok
              THEN /\ chain' = "replyWithStream"
                   /\ UNCHANGED <<chainErr, one>>
              ELSE RejectOne(data.err)
  /\ UNCHANGED <<history, store, req, files, replies>>

\* the `options` replyWithStream of Serve.handler passes to onResponse
StreamOptions(o) ==
  [kind |-> "get", bucket |-> o.bucket, key |-> o.key, contentType |-> o.type,
   contentDisposition |-> o.disposition]

\* replyWithStream of Serve.handler
ServeReplyWithStream ==
  /\ req.method = "get"
  /\ chain = "replyWithStream"
  /\ LET stream == [kind |-> "stream", bucket |-> one.bucket, key |-> one.key]
     IN  \E throws \in ThrowChoices(req.route) :
           Strategy(IF req.route.onResponse
                    THEN OnResponse(NoError, stream, StreamOptions(one))
                    ELSE Reply(NoError, stream, 200,
                               IF Truthy(one.type) THEN one.type ELSE Undef,
                               one.disposition), throws)
  /\ UNCHANGED <<history, store, req, files, one, calls>>

\* replyWithError of Serve.handler
ServeReplyWithError ==
  /\ req.method = "get"
  /\ chain = "rejected"
  /\ LET error == BoomWrap(chainErr)
     IN  replies' = Append(replies,
                           IF req.route.onResponse
                           THEN OnResponse(error, NullResult, NoOptions)
                           ELSE Reply(error, NullResult, error.status, Undef, NoDisposition))
  /\ chain' = "done"
  /\ UNCHANGED <<history, store, req, chainErr, files, one, calls>>

DeleteGetBucketAndKey ==
  /\ req.method = "delete"
  /\ GetBucketAndKeyOne("deleteObject")

\* a delete that takes the backend's NotFound for a success
deleteObject_IgnoreNotFound(objects, bucket, key, outcome) ==
  IF bucket = "" \/ key = <<>> THEN Rejected(BadImplementationError)
  ELSE IF outcome \notin {200, 404} THEN Rejected(S3Error(outcome))
  ELSE Resolved([Bucket |-> bucket, Key |-> key])

\* internals.deleteObject of delete.js; 404 is the NotFound a backend may
\* report for a key that holds no object
deleteObject(objects, bucket, key, outcome) ==
  IF bucket = "" \/ key = <<>> THEN Rejected(BadImplementationError)
  ELSE IF outcome # 200 THEN Rejected(S3Error(outcome))
  ELSE Resolved([Bucket |-> bucket, Key |-> key])

\* a delete that is answered as done but leaves the object in the bucket
DeleteObject_Keep ==
  /\ req.method = "delete"
  /\ chain = "deleteObject"
  /\ \E outcome \in S3Outcomes \cup {404} :
       /\ outcome = 404 => <<one.bucket, one.key>> \notin DOMAIN store
       /\ LET data == deleteObject(store, one.bucket, one.key, outcome)
          IN  /\ calls' = IF IssuesCall(one.bucket, one.key)
                          THEN calls \cup {Call("deleteObject", 0, one.bucket, one.key,
                                                 Undef, NoDisposition)}
                          ELSE calls
              /\ one' = [one EXCEPT !.outcome = IF IssuesCall(one.bucket, one.key)
                                                  THEN outcome ELSE -1]
              /\ chain' = IF data.ok THEN "replyDeleted" ELSE "rejected"
              /\ chainErr' = IF data.ok THEN chainErr ELSE data.err
              /\ UNCHANGED store
  /\ UNCHANGED <<history, req, files, replies>>

\* deleteObject of Delete.handler
DeleteObject ==
  /\ req.method = "delete"
  /\ chain = "deleteObject"
  /\ \E outcome \in S3Outcomes \cup {404} :
       /\ outcome = 404 => <<one.bucket, one.key>> \notin DOMAIN store
       /\ LET data == deleteObject(store, one.bucket, one.key, outcome)
          IN  /\ calls' = IF IssuesCall(one.bucket, one.key)
                          THEN calls \cup {Call("deleteObject", 0, one.bucket, one.key,
                                                 Undef, NoDisposition)}
                          ELSE calls
              /\ one' = [one EXCEPT !.outcome = IF IssuesCall(one.bucket, one.key)
                                                  THEN outcome ELSE -1]
              /\ IF data.ok
                 THEN /\ store' = [t \in DOMAIN store \ {<<one.bucket, one.key>>} |->
                                     store[t]]
                      /\ chain' = "replyDeleted"
                      /\ UNCHANGED chainErr
                 ELSE /\ chain' = "rejected"
                      /\ chainErr' = data.err
                      /\ UNCHANGED store
  /\ UNCHANGED <<history, req, files, replies>>

\* the `options` replyDeleted passes to onResponse
DeletedOptions(o) ==
  [kind |-> "delete", bucket |-> o.bucket, key |-> o.key, defaultStatusCode |-> 204,
   s3Response |-> [Bucket |-> o.bucket, Key |-> o.key]]

\* a reply that answers a delete with 200
ReplyDeleted_Ok ==
  /\ req.method = "delete"
  /\ chain = "replyDeleted"
  /\ \E throws \in ThrowChoices(req.route) :
       Strategy(IF req.route.onResponse
                THEN OnResponse(NoError, NullResult,
                                [DeletedOptions(one) EXCEPT !.defaultStatusCode = 200])
                ELSE Reply(NoError, NullResult, 200, Undef, NoDisposition), throws)
  /\ UNCHANGED <<history, store, req, files, one, calls>>

\* replyDeleted of Delete.handler
ReplyDeleted ==
  /\ req.method = "delete"
  /\ chain = "replyDeleted"
  /\ \E throws \in ThrowChoices(req.route) :
       Strategy(IF req.route.onResponse
                THEN OnResponse(NoError, NullResult, DeletedOptions(one))
                ELSE Reply(NoError, NullResult, 204, Undef, NoDisposition), throws)
  /\ UNCHANGED <<history, store, req, files, one, calls>>

\* ----------------------------------------------------------- shared notions
Parts == DOMAIN files

IsPost == req.method = "post"

\* the S3 calls of an operation issued for the request
CallsOf(op) == {c \in calls : c.op = op}

\* whether the form key of part i is on the ignore list
Ignored(i) == hasMatch(req.route.ignoredFormKeys, files[i].file.key)

\* the request has been answered / answered first with success / with an error
Answered == replies # <<>>

AnsweredSuccess == Answered /\ replies[1].error.none

AnsweredError(status) ==
  Answered /\ ~replies[1].error.none /\ replies[1].error.status = status

\* the first answer is the (wrapped) error of a part other than i that failed
AnsweredErrorOfOther(i) ==
  /\ Answered
  /\ \E j \in Parts \ {i} :
       files[j].stage = "failed" /\ replies[1].error = BoomWrap(files[j].err)

\* --------------------------------------------------- sequences of requests
\* largest number of requests a client sends one after the other
MaxRequests == 2

\* largest number of form-data parts in a POST of such a sequence
MaxSeqParts == 1

\* the settings of `mode`: a mode, or a mode per method
ModeSettings ==
  { [isObject |-> FALSE, val |-> m, per |-> [get |-> "auto", post |-> "auto"]] :
      m \in {"auto", "false", "attachment", "inline"} }
  \cup
  { [isObject |-> TRUE, val |-> "", per |-> per] :
      per \in { [get |-> "false", post |-> "auto"], [get |-> "auto", post |-> "inline"] } }

\* the routes of the sequences differ in mode, filename and randomPostKeys;
\* the schema forbids `filename` when `mode` is false
SeqRoutes ==
  { [BaseRoute EXCEPT !.mode = c[1], !.filename = c[2]] :
      c \in {d \in ModeSettings \X BOOLEAN : d[2] => (d[1].isObject \/ d[1].val # "false")} }
  \cup { [BaseRoute EXCEPT !.randomPostKeys = TRUE] }

InlineKey == <<Seg("inline", "txt")>>

\* the bucket before the first request of a sequence: the fixture and an object
\* whose content-disposition is 'inline', without a filename
SeqFixtureStore ==
  [t \in DOMAIN FixtureStore \cup {<<"test", InlineKey>>} |->
     IF t \in DOMAIN FixtureStore THEN FixtureStore[t]
     ELSE [ContentType |-> "text/plain",
           ContentDisposition |-> [type |-> "inline", params |-> <<>>]]]

SeqPaths ==
  {<<>>, ExistingKey, InlineKey, <<Seg("test-NF", "pdf")>>, <<Seg("rnd1", "pdf")>>}

\* a text field, a file part and a file part without filename
SeqPayloads ==
  { PartsFrom(idx, 1) : idx \in {i \in SUBSET {1, 3, 5} : Cardinality(i) <= MaxSeqParts} }

\* what is kept of a request once it is over
Summary ==
  [method  |-> req.method,
   route   |-> req.route,
   ok      |-> AnsweredSuccess,
   wrote   |-> { [bucket |-> files[i].bucket, key |-> files[i].key,
                  named |-> Param(files[i].file.headers.cd.params, "filename") # <<>>,
                  ContentDisposition |-> UploadParams(files[i]).ContentDisposition] :
                 i \in {j \in DOMAIN files : files[j].stage = "stored"} },
   removed |-> IF req.method = "delete" /\ one.outcome = 200
               THEN {<<one.bucket, one.key>>} ELSE {}]

SeqInit ==
  /\ store = SeqFixtureStore
  /\ req = NoRequest
  /\ chain = "idle"
  /\ chainErr = NoError
  /\ files = <<>>
  /\ one = NewOne
  /\ calls = {}
  /\ replies = <<>>
  /\ history = <<>>

\* the next request of the client, on the route of its first request
ReceiveNext ==
  /\ chain = "idle"
  /\ \E method \in {"get", "post", "delete"}, route \in SeqRoutes, path \in SeqPaths,
        payload \in SeqPayloads :
       /\ history # <<>> => route = history[1].route
       /\ method # "post" => payload = <<>>
       /\ req' = [method |-> method, route |-> route, path |-> path,
                  contentType |-> IF method = "post" THEN "multipart/form-data" ELSE Undef,
                  payload |-> payload]
       /\ files' = [i \in 1..Len(payload) |-> NewFile(payload[i])]
       /\ chain' = IF method = "post" THEN "prepareFiles" ELSE "getBucketAndKey"
  /\ UNCHANGED <<history, store, chainErr, one, calls, replies>>

\* the request is over: it was answered and none of its parts is still on its
\* way through the sub-pipeline or to the bucket; the client sends its next one
Complete ==
  /\ chain = "done"
  /\ Len(history) + 1 < MaxRequests
  /\ \A i \in DOMAIN files : files[i].stage \in {"valid", "dropped", "stored", "failed"}
  /\ history' = Append(history, Summary)
  /\ req' = NoRequest
  /\ chain' = "idle"
  /\ chainErr' = NoError
  /\ files' = <<>>
  /\ one' = NewOne
  /\ calls' = {}
  /\ replies' = <<>>
  /\ UNCHANGED store

\* ------------------------------------------------------------- specification
\* the steps of the three handlers
Handle ==
  \/ \E i \in DOMAIN files : GetBucketAndKey(i)
  \/ \E i \in DOMAIN files : AssertObjectDoesNotExist(i)
  \/ \E i \in DOMAIN files : GetContentDispositionAndType(i)
  \/ \E i \in DOMAIN files : AssertUploadIsValid(i)
  \/ UploadFiles
  \/ \E i \in DOMAIN files : UploadStream(i)
  \/ ReplyCreated
  \/ ReplyWithError
  \/ ServeGetBucketAndKey
  \/ ServeGetObjectMetaData
  \/ ServeGetContentDispositionAndType
  \/ ServeGetObjectStream
  \/ ServeReplyWithStream
  \/ ServeReplyWithError
  \/ DeleteGetBucketAndKey
  \/ DeleteObject
  \/ ReplyDeleted

SeqNext == ReceiveNext \/ Complete \/ Handle

\* a client that sends requests one after the other on one route
SeqSpec == SeqInit /\ [][SeqNext]_vars

Next ==
  \/ Receive
  \/ \E i \in DOMAIN files : GetBucketAndKey(i)
  \/ \E i \in DOMAIN files : AssertObjectDoesNotExist(i)
  \/ \E i \in DOMAIN files : GetContentDispositionAndType(i)
  \/ \E i \in DOMAIN files : AssertUploadIsValid(i)
  \/ UploadFiles
  \/ \E i \in DOMAIN files : UploadStream(i)
  \/ ReplyCreated
  \/ ReplyWithError
  \/ ServeGetBucketAndKey
  \/ ServeGetObjectMetaData
  \/ ServeGetContentDispositionAndType
  \/ ServeGetObjectStream
  \/ ServeReplyWithStream
  \/ ServeReplyWithError
  \/ DeleteGetBucketAndKey
  \/ DeleteObject
  \/ ReplyDeleted

Spec == Init /\ [][Next]_vars

\* -------------------------------------------------------------------- claims
\* what C1 says of part i, but for the answer of the request
C1_Part(i) ==
  /\ files[i].lookup = 200 =>
       /\ \A c \in CallsOf("upload") : c.part # i
       /\ files[i].stage = "failed" /\ files[i].err = Boom(409)
  /\ files[i].lookup = 404 =>
       /\ files[i].stage # "resolved"
       /\ files[i].failedAt # "assertObjectDoesNotExist"
  /\ files[i].lookup \notin {0, 200, 404} =>
       /\ files[i].stage = "failed"
       /\ files[i].failedAt = "assertObjectDoesNotExist"
       /\ files[i].err = Boom(files[i].lookup)

\* C1 as stated: in a POST, a part whose target already exists (its meta data
\* lookup succeeds) is never stored and the request is answered 409; a lookup
\* failing with 404 lets the part continue; a lookup failing with another
\* status fails the part with that status.
C1_Original ==
  IsPost => \A i \in Parts :
    /\ C1_Part(i)
    /\ (files[i].lookup = 200 /\ Answered) => AnsweredError(409)

\* C1 amended: as C1, but the request is answered with the error of the part
\* that failed first, which is the 409 unless another part's failure is
\* reported instead; it is never answered with success.
C1_Conflict ==
  IsPost => \A i \in Parts :
    /\ C1_Part(i)
    /\ (files[i].lookup = 200 /\ Answered) =>
         /\ ~AnsweredSuccess
         /\ AnsweredError(409) \/ AnsweredErrorOfOther(i)

\* a POST of two parts, one whose target exists and one whose lookup said 404
\* and that went on, answered 409
C1_Witness ==
  /\ IsPost
  /\ AnsweredError(409)
  /\ \E i, j \in Parts :
       /\ files[i].lookup = 200
       /\ files[j].lookup = 404 /\ files[j].stage \in {"typed", "valid"}

\* the stages of a part's sub-pipeline that come before the store
PrepareStages ==
  {"getBucketAndKey", "assertObjectDoesNotExist", "getContentDispositionAndType",
   "assertUploadIsValid"}

\* C2: two-phase barrier: no upload is issued for any part of a POST before
\* every part has passed key/bucket resolution, the existence guard,
\* content-type/disposition resolution and validation; if a part fails in one
\* of these stages the request stores nothing.
C2_TwoPhase ==
  IsPost =>
    /\ CallsOf("upload") # {} =>
         \A j \in Parts :
           \/ files[j].stage \in {"uploading", "stored", "dropped"}
           \/ files[j].stage = "failed" /\ files[j].failedAt = "uploadStream"
    /\ (\E j \in Parts : files[j].stage = "failed" /\ files[j].failedAt \in PrepareStages) =>
         /\ CallsOf("upload") = {}
         /\ \A i \in Parts : files[i].stage \notin {"uploading", "stored"}

\* a part is validated, its sibling failed validation, the request is over
C2_Witness ==
  /\ IsPost /\ chain = "done"
  /\ \E i, j \in Parts :
       /\ files[i].stage = "valid"
       /\ files[j].stage = "failed" /\ files[j].failedAt = "assertUploadIsValid"

\* the parts of the request that were stored
StoredParts == {i \in Parts : files[i].stage = "stored"}

\* the payload entry of stored part i reports what upload call c was given
EntryMatchesUpload(e, c) ==
  /\ e.Bucket = c.bucket /\ e.Key = c.key
  /\ ("ContentType" \in DOMAIN e) <=> (c.ContentType # Undef)
  /\ ("ContentType" \in DOMAIN e) => e.ContentType = c.ContentType
  /\ ("ContentDisposition" \in DOMAIN e) <=> (c.ContentDisposition # NoDisposition)
  /\ ("ContentDisposition" \in DOMAIN e) => e.ContentDisposition = c.ContentDisposition

C4_NoPartProcessing ==
  (IsPost /\ Truthy(req.contentType) /\ req.contentType # "multipart/form-data") =>
    /\ \A i \in Parts : files[i].stage = "file"
    /\ CallsOf("headObject") = {}
    /\ chain = "done" => AnsweredError(415)

\* C5 as stated: a part whose form field name is on the ignore list is never
\* stored and never in the response payload, while the other parts of the
\* request are stored and reported normally (the request succeeds when none of
\* them fails); without an ignore list no part is dropped.
C5_IgnoredDropped ==
  (IsPost /\ req.contentType = "multipart/form-data") =>
    /\ \A i \in Parts : Ignored(i) =>
         /\ \A c \in CallsOf("upload") : c.part # i
         /\ AnsweredSuccess => files[i].file.key \notin DOMAIN replies[1].res.payload
    /\ (chain = "done" /\ \A i \in Parts : ~Ignored(i) => files[i].stage # "failed") =>
         /\ AnsweredSuccess
         /\ \A i \in Parts : ~Ignored(i) =>
              /\ files[i].stage = "stored"
              /\ files[i].file.key \in DOMAIN replies[1].res.payload
    /\ ~req.route.ignoredFormKeys.given => \A i \in Parts : files[i].stage # "dropped"

\* C6 as stated: a part whose form key is on the ignore list never makes the
\* POST fail, whatever its target (existing or not, lookup failing or not) and
\* whatever its content type.
C6_IgnoredNeverFails ==
  (IsPost /\ req.contentType = "multipart/form-data") =>
    \A i \in Parts : Ignored(i) =>
      ~(files[i].stage = "failed"
        /\ files[i].failedAt \in {"assertObjectDoesNotExist", "assertUploadIsValid"})

\* the content type of part i has been derived
Derived(i) ==
  \/ files[i].stage \in {"typed", "valid", "dropped", "uploading", "stored"}
  \/ files[i].stage = "failed" /\ files[i].failedAt \in {"assertUploadIsValid", "uploadStream"}

\* type equals a string entry or matches a pattern entry of the list
OnList(list, type) ==
  \E k \in 1..Len(list.items) :
    \/ list.items[k].re /\ type \in list.items[k].lang
    \/ ~list.items[k].re /\ list.items[k].val = type

\* what C7 says but for the answer of the request
C7_Parts ==
  /\ req.route.allowedContentTypes.given =>
       \A i \in Parts :
         /\ (\E c \in CallsOf("upload") : c.part = i) =>
              OnList(req.route.allowedContentTypes, files[i].type)
         /\ (Derived(i) /\ ~OnList(req.route.allowedContentTypes, files[i].type)) =>
              CallsOf("upload") = {}
  /\ (~req.route.allowedContentTypes.given /\ req.contentType = "multipart/form-data") =>
       \A i \in Parts : files[i].failedAt # "assertUploadIsValid"

\* C7 as stated: with allowedContentTypes a part is stored only if its derived
\* content type is on the list, otherwise the POST is answered 415 and nothing
\* is stored; without allowedContentTypes every content type is accepted.
C7_Original ==
  IsPost =>
    /\ C7_Parts
    /\ req.route.allowedContentTypes.given =>
         \A i \in Parts :
           (Derived(i) /\ ~OnList(req.route.allowedContentTypes, files[i].type) /\ Answered)
             => AnsweredError(415)

\* C7 amended: the part that is not on the list fails with 415 (422 when the
\* request has no content-type header), nothing is stored, and the POST is
\* answered with an error: that of the part, unless the failure of another
\* part is reported instead.
C7_Allowed ==
  IsPost =>
    /\ C7_Parts
    /\ req.route.allowedContentTypes.given =>
         \A i \in Parts :
           (Derived(i) /\ ~OnList(req.route.allowedContentTypes, files[i].type)) =>
             /\ \/ files[i].stage = "typed"
                \/ /\ files[i].stage = "failed"
                   /\ files[i].failedAt = "assertUploadIsValid"
                   /\ files[i].err = Boom(IF Truthy(req.contentType) THEN 415 ELSE 422)
             /\ Answered =>
                  /\ ~AnsweredSuccess
                  /\ replies[1].error = files[i].err \/ AnsweredErrorOfOther(i)

\* a multipart POST of a part that is on the list and validated and of a part
\* that is not, answered 415
C7_Witness ==
  /\ IsPost /\ req.route.allowedContentTypes.given /\ AnsweredError(415)
  /\ req.contentType = "multipart/form-data"
  /\ \E i, j \in Parts :
       /\ files[i].stage = "valid" /\ OnList(req.route.allowedContentTypes, files[i].type)
       /\ files[j].failedAt = "assertUploadIsValid"
       /\ ~OnList(req.route.allowedContentTypes, files[j].type)

\* C8: for GET the meta data lookup precedes the stream fetch: a getObject is
\* issued only after a successful lookup, and after a lookup that reported
\* "not found" none is ever issued and the request is answered 404.
C8_HeadFirst ==
  req.method = "get" =>
    /\ CallsOf("getObject") # {} => one.lookup = 200
    /\ one.lookup = 404 =>
         /\ CallsOf("getObject") = {}
         /\ chain \in {"rejected", "done"}
         /\ chain = "done" => AnsweredError(404)
         /\ Answered => AnsweredError(404)

\* a GET of a key that holds no object, answered 404 after its lookup
C8_Witness ==
  /\ req.method = "get" /\ one.lookup = 404
  /\ CallsOf("headObject") # {}
  /\ AnsweredError(404)

\* the response strategy the route configures
Strategy_Configured == IF req.route.onResponse THEN "onResponse" ELSE "reply"

\* C9: with onResponse configured every outcome of a GET, POST or DELETE is
\* delivered by calling onResponse and never by the default reply; without
\* it, by the default reply and never by onResponse.  On failure onResponse
\* gets the error, a null result and no success options.
C9_Delegate ==
  /\ chain = "done" => Answered
  /\ \A k \in 1..Len(replies) :
       /\ replies[k].via = Strategy_Configured
       /\ (replies[k].via = "onResponse" /\ ~replies[k].error.none) =>
            /\ replies[k].error.isBoom
            /\ replies[k].res = NullResult
            /\ replies[k].options.kind \in {"null", "undefined"}

\* a POST on a route with onResponse, failed, delivered to onResponse
C9_Witness ==
  /\ IsPost /\ req.route.onResponse /\ chain = "done"
  /\ Len(replies) = 1
  /\ replies[1].via = "onResponse" /\ ~replies[1].error.none

\* C10 as stated: on a successful GET the options passed to onResponse carry
\* bucket, key, the resolved contentType and contentDisposition and
\* defaultStatusCode = 200.
C10_GetOptions ==
  req.method = "get" =>
    \A k \in 1..Len(replies) :
      (replies[k].via = "onResponse" /\ replies[k].error.none) =>
        LET options == replies[k].options
        IN  /\ options.bucket = one.bucket /\ options.key = one.key
            /\ options.contentType = one.type
            /\ options.contentDisposition = one.disposition
            /\ "defaultStatusCode" \in DOMAIN options
            /\ options.defaultStatusCode = 200

\* C11: a DELETE performs no meta data lookup: it resolves bucket and key,
\* issues exactly one delete, for that target, and on success replies with no
\* body and status 204, or calls onResponse with a null error, a null result
\* and options holding bucket, key, defaultStatusCode 204 and the storage
\* response.
C11_Delete ==
  req.method = "delete" =>
    /\ CallsOf("headObject") = {} /\ CallsOf("getObject") = {} /\ CallsOf("upload") = {}
    /\ Cardinality(CallsOf("deleteObject")) <= 1
    /\ \A c \in CallsOf("deleteObject") : c.bucket = one.bucket /\ c.key = one.key
    /\ chain = "replyDeleted" => one.outcome = 200
    /\ (one.outcome = 200 /\ chain = "done") => AnsweredSuccess
    /\ \A k \in 1..Len(replies) : replies[k].error.none =>
         /\ k = 1
         /\ one.outcome = 200 /\ Cardinality(CallsOf("deleteObject")) = 1
         /\ replies[k].res = NullResult
         /\ replies[k].via = "reply" => replies[k].code = 204
         /\ replies[k].via = "onResponse" =>
              LET options == replies[k].options
              IN  /\ DOMAIN options =
                       {"kind", "bucket", "key", "defaultStatusCode", "s3Response"}
                  /\ options.bucket = one.bucket /\ options.key = one.key
                  /\ options.defaultStatusCode = 204

\* a DELETE of a stored object on a route with onResponse: one delete was
\* issued, the object is gone, onResponse got the success
C11_Witness ==
  /\ req.method = "delete" /\ req.route.onResponse /\ AnsweredSuccess
  /\ Cardinality(CallsOf("deleteObject")) = 1
  /\ <<one.bucket, one.key>> \in DOMAIN FixtureStore
  /\ <<one.bucket, one.key>> \notin DOMAIN store

\* C12: a DELETE whose storage delete fails is never answered as success: a
\* backend NotFound is answered 404, any other storage error with the
\* backend's status code, 500 when the error carries none; and the bucket is
\* left as it was.
C12_DeleteFails ==
  (req.method = "delete" /\ one.outcome \notin {-1, 200}) =>
    /\ chain \in {"rejected", "done"}
    /\ chain = "done" => Answered
    /\ store = FixtureStore
    /\ \A k \in 1..Len(replies) :
         /\ ~replies[k].error.none
         /\ replies[k].error.status = IF one.outcome = 0 THEN 500 ELSE one.outcome
         /\ replies[k].via = "reply" => replies[k].code = replies[k].error.status

\* a DELETE of a key that holds no object, whose delete the backend answered
\* with NotFound, answered 404
C12_Witness ==
  /\ req.method = "delete" /\ one.outcome = 404
  /\ <<one.bucket, one.key>> \notin DOMAIN FixtureStore
  /\ AnsweredError(404)

\* the request handled before this one
Last == history[Len(history)]

\* the target of the GET or DELETE being handled
Target == <<one.bucket, one.key>>

\* the previous request was a POST answered 201 that stored a part at t
PostStored(t) ==
  /\ history # <<>> /\ Last.method = "post" /\ Last.ok
  /\ \E w \in Last.wrote : <<w.bucket, w.key>> = t

\* the previous request was a DELETE of t answered 204
DeleteRemoved(t) ==
  history # <<>> /\ Last.method = "delete" /\ Last.ok /\ t \in Last.removed

\* the request was answered by the default reply with this status code
AnsweredCode(code) ==
  Answered /\ replies[1].via = "reply" /\ replies[1].error.none /\ replies[1].code = code

C13_WitnessDeleted ==
  /\ req.method = "get" /\ DeleteRemoved(Target) /\ AnsweredError(404)
  /\ Target \in DOMAIN SeqFixtureStore

\* the route sets this mode for the method
Configured(mode, method) ==
  IF req.route.mode.isObject THEN req.route.mode.per[method] = mode
  ELSE req.route.mode.val = mode

C15_ModeOff ==
  (req.method \in {"get", "post"} /\ Configured("false", req.method)) =>
    /\ CallsOf("filename") = {}
    /\ one.disposition = NoDisposition
    /\ \A k \in 1..Len(replies) : replies[k].disposition = NoDisposition
    /\ \A c \in CallsOf("upload") : c.ContentDisposition = NoDisposition
    /\ \A i \in Parts :
         /\ files[i].disposition = NoDisposition
         /\ files[i].stage = "stored" =>
              store[<<files[i].bucket, files[i].key>>].ContentDisposition = NoDisposition
    /\ (IsPost /\ AnsweredSuccess) =>
         \A f \in DOMAIN replies[1].res.payload :
           "ContentDisposition" \notin DOMAIN replies[1].res.payload[f]

\* a GET with mode off for GET, on a route with a filename resolver, of an
\* object stored with a content-disposition: answered 200 without the header
C15_Witness ==
  /\ req.method = "get" /\ Configured("false", "get") /\ req.route.filename
  /\ AnsweredCode(200)
  /\ one.optDisposition # NoDisposition
  /\ replies[1].disposition = NoDisposition

\* a POST with mode off of a file part that names its file: stored without
\* content-disposition
C15_WitnessPost ==
  /\ IsPost /\ Configured("false", "post") /\ AnsweredSuccess
  /\ \E i \in Parts :
       /\ files[i].stage = "stored"
       /\ Param(files[i].file.headers.cd.params, "filename") # <<>>

\* the filename parameter of a content-disposition (<<>>: it has none)
FilenameOf(d) == Param(d.params, "filename")

\* the file names a filename resolver answers with
ResolverNames == {o.val : o \in {x \in FilenameFnOutcomes : x.ok}} \ {<<>>}

\* the GET has resolved its content-disposition
ServeDerived ==
  req.method = "get" /\ (chain \in {"getObjectStream", "replyWithStream"} \/ AnsweredSuccess)

\* what C16 says of the content-disposition d produced for key under mode,
\* answer being what the filename resolver answered
C16_Forced(d, mode, key, answer) ==
  /\ d # NoDisposition => d.type = mode
  /\ ~req.route.filename =>
       d = [type |-> mode, params |-> <<[n |-> "filename", v |-> PathBasename(key)]>>]
  /\ (req.route.filename /\ d # NoDisposition) =>
       FilenameOf(d) = answer /\ answer \in ResolverNames

AutoType(header) ==
  IF header.type \in {"inline", "attachment"} THEN header.type ELSE "attachment"

\* C17: when the mode is auto, the type of the produced content-disposition
\* is the type parsed from the existing header if that type is inline or
\* attachment, and attachment in every other case (no existing header, or one
\* of another type such as form-data).
C17_AutoType ==
  (req.method \in {"get", "post"} /\ Configured("auto", req.method)) =>
    /\ \A i \in Parts : (Derived(i) /\ files[i].disposition # NoDisposition) =>
         files[i].disposition.type = AutoType(files[i].file.headers.cd)
    /\ (ServeDerived /\ one.disposition # NoDisposition) =>
         one.disposition.type = AutoType(one.optDisposition)
    /\ \A k \in 1..Len(replies) :
         (req.method = "get" /\ replies[k].error.none) =>
           replies[k].disposition = one.disposition

\* a GET with mode auto of an object stored as 'inline': answered inline
C17_Witness ==
  /\ req.method = "get" /\ Configured("auto", "get") /\ AnsweredCode(200)
  /\ one.optDisposition.type = "inline"
  /\ replies[1].disposition.type = "inline"

\* a POST with mode auto of a file part (header of type form-data): stored
\* as an attachment
C17_WitnessPost ==
  /\ IsPost /\ Configured("auto", "post") /\ AnsweredSuccess
  /\ \E i \in Parts :
       /\ files[i].stage = "stored"
       /\ files[i].file.headers.cd.type = "form-data"
       /\ store[<<files[i].bucket, files[i].key>>].ContentDisposition.type = "attachment"

\* the first two ranks of C18 for the content-disposition d produced from
\* header, answer being what the filename resolver answered
C18_Ranks(d, header, answer) ==
  /\ (req.route.filename /\ answer # <<>>) => FilenameOf(d) = answer
  /\ (~req.route.filename /\ FilenameOf(header) # <<>>) =>
       FilenameOf(d) = PathBasename(FilenameOf(header))

C18_WitnessNone ==
  /\ IsPost /\ Configured("auto", "post") /\ ~req.route.filename /\ AnsweredSuccess
  /\ \E i \in Parts :
       /\ files[i].stage = "stored" /\ files[i].file.headers = NoHeaders
       /\ store[<<files[i].bucket, files[i].key>>].ContentDisposition = NoDisposition

\* no filename can be determined for the content-disposition built from header
NoFilename(mode, header, answer) ==
  \/ req.route.filename /\ answer = <<>>
  \/ mode = "auto" /\ ~req.route.filename /\ FilenameOf(header) = <<>>

\* the type Helpers.getContentDisposition decides on
DecidedType(mode, header) == IF mode = "auto" THEN AutoType(header) ELSE mode

KeyName(file) ==
  IF FilenameOf(file.headers.cd) # <<>> THEN FilenameOf(file.headers.cd)
  ELSE IF Param(file.headers.cd.params, "name") # <<>>
       THEN Param(file.headers.cd.params, "name")
       ELSE file.key

\* bucket and key of part i have been resolved
KeyResolved(i) ==
  files[i].stage # "file"
  /\ ~(files[i].stage = "failed" /\ files[i].failedAt = "getBucketAndKey")

\* C20: for each part of a POST the name the object key is built from is the
\* filename of the part's content-disposition header if present, else the
\* header's name parameter if present, else the form field name (the key being
\* the route's key prefix, the path parameter and that name, with a random
\* basename under randomPostKeys); the response payload and the ignore-list
\* check use the form field name.
C20_FileKey ==
  IsPost =>
    /\ \A i \in Parts : (KeyResolved(i) /\ req.route.key.kind # "function") =>
         LET plain == PathJoin(req.route.key.val, req.path, KeyName(files[i].file))
         IN  IF req.route.randomPostKeys
             THEN /\ PathDirname(files[i].key) = PathDirname(plain)
                  /\ PathExtname(files[i].key) = PathExtname(plain)
                  /\ files[i].key[Len(files[i].key)].b \in Tokens
             ELSE files[i].key = plain
    /\ \A i \in Parts :
         /\ files[i].stage = "dropped" => OnList(req.route.ignoredFormKeys, files[i].file.key)
         /\ files[i].stage \in {"valid", "uploading", "stored"} =>
              ~OnList(req.route.ignoredFormKeys, files[i].file.key)
    /\ AnsweredSuccess =>
         DOMAIN replies[1].res.payload = {files[i].file.key : i \in StoredParts}

\* a POST on a route that ignores 'test-NF.pdf': the part 'test' that names
\* its file test-NF.pdf is stored under that file name and reported under
\* 'test'
C20_Witness ==
  /\ IsPost /\ AnsweredSuccess
  /\ OnList(req.route.ignoredFormKeys, <<Seg("test-NF", "pdf")>>)
  /\ \E i \in StoredParts :
       /\ files[i].file.key = FormKeyTest
       /\ files[i].key = req.path \o <<Seg("test-NF", "pdf")>>
       /\ FormKeyTest \in DOMAIN replies[1].res.payload
       /\ replies[1].res.payload[FormKeyTest].Key = files[i].key

\* the calls that went to S3 (the recorded resolver invocations left out)
S3Calls == {c \in calls : c.op \in {"headObject", "getObject", "upload", "deleteObject"}}

\* the literal key of the route as a path ('' when the route has none)
Prefix == IF req.route.key.kind = "string" THEN req.route.key.val ELSE <<>>

\* C21: when the key of the route is a literal string or absent, the resolved
\* key is the join, in this order, of the non-empty ones among the literal key,
\* the path parameter and (POST only) the part's file name; for GET and DELETE
\* the part name is never in the key, and when everything is empty the
\* resolution fails with the 500 configuration error and no S3 call is made.
C21_LiteralKey ==
  (req.method # "none" /\ req.route.key.kind # "function") =>
    /\ IsPost => \A i \in Parts :
         (KeyResolved(i) /\ ~req.route.randomPostKeys) =>
           /\ files[i].key = Prefix \o req.path \o KeyName(files[i].file)
           /\ files[i].key # <<>>
    /\ (~IsPost /\ Prefix \o req.path # <<>> /\ chain \notin {"idle", "getBucketAndKey"}) =>
         one.key = Prefix \o req.path
    /\ (~IsPost /\ Prefix \o req.path = <<>>) =>
         /\ S3Calls = {}
         /\ one.key = <<>>
         /\ chain \in {"getBucketAndKey", "rejected", "done"}
         /\ chain = "rejected" => chainErr = BadImplementationError
         /\ Answered => AnsweredError(500)

\* a POST on a route with the key prefix 'files2' and a path parameter stores a
\* part under prefix/path/name
C21_Witness ==
  /\ IsPost /\ AnsweredSuccess
  /\ req.route.key.kind = "string" /\ ~req.route.randomPostKeys /\ req.path # <<>>
  /\ \E i \in StoredParts :
       files[i].key = req.route.key.val \o req.path \o <<Seg("test-NF", "pdf")>>

\* a GET without key and without path parameter is answered 500 and no call
\* reached S3
C21_WitnessEmpty ==
  /\ req.method = "get" /\ req.route.key.kind = "none" /\ req.path = <<>>
  /\ AnsweredError(500) /\ S3Calls = {}

\* what the key function resolved with when it was invoked for a part (part 0:
\* the one resolution of a GET or DELETE)
KeyAnswers(part) == {c.key : c \in {d \in CallsOf("key") : d.part = part}}

\* C22: when the key of the route is a function, the resolved key is exactly
\* what the function resolved with: neither the path parameter nor the part's
\* file name is joined to it; only the randomization of POST keys is applied
\* to it afterwards.
C22_FunctionKey ==
  (req.method # "none" /\ req.route.key.kind = "function") =>
    /\ IsPost => \A i \in Parts : KeyResolved(i) =>
         \E k \in KeyAnswers(i) :
           IF req.route.randomPostKeys
           THEN \E t \in Tokens :
                  files[i].key = PathDirname(k) \o <<Seg(t, PathExtname(k))>>
           ELSE files[i].key = k
    /\ (~IsPost /\ chain \notin {"idle", "getBucketAndKey"}) =>
         \E k \in KeyAnswers(0) :
           /\ one.key \in {k, <<>>}
           /\ one.bucket # "" => one.key = k

\* a POST with a path parameter on a route whose key function answers
\* 'new.pdf' stores the part under new.pdf alone
C22_Witness ==
  /\ IsPost /\ AnsweredSuccess
  /\ req.route.key.kind = "function" /\ ~req.route.randomPostKeys /\ req.path # <<>>
  /\ \E i \in StoredParts :
       /\ KeyAnswers(i) = {<<Seg("new", "pdf")>>}
       /\ files[i].key = <<Seg("new", "pdf")>>

\* with randomPostKeys the answer files2/1.pdf of the key function becomes
\* files2/<token>.pdf
C22_WitnessRandom ==
  /\ IsPost /\ AnsweredSuccess
  /\ req.route.key.kind = "function" /\ req.route.randomPostKeys
  /\ \E i \in StoredParts :
       /\ KeyAnswers(i) = {ExistingKey}
       /\ files[i].key = <<Seg("files2", ""), Seg("rnd1", "pdf")>>

\* the keys part i would get without randomization: the answer of the key
\* function, or the join of prefix, path parameter and file name
PlainKeys(i) ==
  IF req.route.key.kind = "function" THEN KeyAnswers(i)
  ELSE {Prefix \o req.path \o KeyName(files[i].file)}

\* C23: with randomPostKeys set, the key a POST part is stored under has the
\* parent directory segments and the file extension of the un-randomized key
\* and a generated token as its basename; with randomPostKeys unset the key
\* is the un-randomized key, and the key of a GET or DELETE is never
\* randomized.
C23_RandomKeys ==
  /\ IsPost => \A i \in Parts : KeyResolved(i) =>
       \E plain \in PlainKeys(i) :
         IF req.route.randomPostKeys
         THEN /\ files[i].key # <<>>
              /\ SubSeq(files[i].key, 1, Len(files[i].key) - 1) = PathDirname(plain)
              /\ files[i].key[Len(files[i].key)].e = PathExtname(plain)
              /\ files[i].key[Len(files[i].key)].b \in Tokens
         ELSE files[i].key = plain
  /\ \A c \in CallsOf("upload") : c.key = files[c.part].key
  /\ (req.method \in {"get", "delete"} /\ req.route.key.kind # "function") =>
       one.key \in {<<>>, Prefix \o req.path}

\* a POST with randomPostKeys on the route with the prefix 'files2' and a path
\* parameter stores test-NF.pdf under prefix/path/<token>.pdf
C23_Witness ==
  /\ IsPost /\ AnsweredSuccess /\ req.route.randomPostKeys
  /\ req.route.key.kind = "string" /\ req.path = <<Seg("1", "pdf")>>
  /\ \E i \in StoredParts :
       /\ KeyName(files[i].file) = <<Seg("test-NF", "pdf")>>
       /\ files[i].key = <<Seg("files2", ""), Seg("1", "pdf"), Seg("rnd2", "pdf")>>
       /\ <<files[i].bucket, files[i].key>> \in DOMAIN store

\* what the contentType function resolved with when invoked for a part
ContentTypeAnswers(part) ==
  {c.ContentType : c \in {d \in CallsOf("contentType") : d.part = part}}

\* the overrideContentTypes substitution of a reported content type
Substituted(type) ==
  IF type # Undef /\ type \in DOMAIN req.route.overrideContentTypes
  THEN req.route.overrideContentTypes[type] ELSE type

\* C24 as stated: the content type of a POST part is the part's declared MIME
\* type after the overrideContentTypes substitution, unless a contentType is
\* configured: then it is the configured literal or what the function
\* resolved with, which is final and not itself substituted.
C24_TypeOrder ==
  IsPost => \A i \in Parts : Derived(i) =>
    CASE req.route.contentType.kind = "string" ->
           files[i].type = req.route.contentType.val
      [] req.route.contentType.kind = "function" ->
           files[i].type \in ContentTypeAnswers(i)
      [] OTHER -> files[i].type = Substituted(files[i].file.headers.ct)

\* C25 as stated: a POST that carries at least one payload part and has no
\* content-type request header is answered 422 and stores nothing.
C25_MissingContentType ==
  (IsPost /\ Parts # {} /\ req.contentType = Undef) =>
    /\ Answered => AnsweredError(422)
    /\ CallsOf("upload") = {}
    /\ store = FixtureStore

\* the recorded invocations of a resolver function at a resolution site: a part
\* of a POST, or 0 for the one resolution of a GET or DELETE
Invocations(resolver, site) == {c \in CallsOf(resolver) : c.part = site}

\* the getBucketAndKey of a site has run
KeySite(site) ==
  IF IsPost THEN site \in Parts /\ files[site].stage # "file"
  ELSE site = 0 /\ req.method \in {"get", "delete"}
       /\ chain \notin {"idle", "getBucketAndKey"}

\* the getContentDispositionAndType of a site has run (a DELETE has none)
TypeSite(site) ==
  IF IsPost
  THEN site \in Parts
       /\ \/ Derived(site)
          \/ files[site].stage = "failed"
             /\ files[site].failedAt = "getContentDispositionAndType"
  ELSE site = 0 /\ req.method = "get" /\ one.lookup = 200
       /\ chain # "getContentDispositionAndType"

\* the resolver is a configured function and its site has run; the filename
\* function is not consulted when the mode of the method is off
Consulted(resolver, site) ==
  CASE resolver = "bucket" -> req.route.bucket.kind = "function" /\ KeySite(site)
    [] resolver = "key" -> req.route.key.kind = "function" /\ KeySite(site)
    [] resolver = "contentType" ->
         req.route.contentType.kind = "function" /\ TypeSite(site)
    [] resolver = "filename" ->
         /\ req.route.filename /\ TypeSite(site)
         /\ ~Configured("false", req.method)

\* C26: each configured resolver function is invoked exactly once per
\* resolution site it is consulted at (once per request for GET and DELETE,
\* once per part for POST) and nowhere else; so every S3 call made for a part
\* (the existence lookup and the upload) has the bucket and key resolved for
\* that part, the object is stored under them and the response reports them,
\* also when keys are randomized.
C26_OncePerSite ==
  /\ \A resolver \in {"bucket", "key", "contentType", "filename"} :
       \A site \in {0} \cup Parts :
         Cardinality(Invocations(resolver, site)) =
           IF Consulted(resolver, site) THEN 1 ELSE 0
  /\ \A c \in S3Calls :
       IF IsPost
       THEN c.part \in Parts /\ c.bucket = files[c.part].bucket
                             /\ c.key = files[c.part].key
       ELSE c.part = 0 /\ c.bucket = one.bucket /\ c.key = one.key
  /\ IsPost => \A i \in Parts :
       /\ Cardinality({c \in S3Calls : c.part = i /\ c.op = "headObject"}) <= 1
       /\ Cardinality({c \in S3Calls : c.part = i /\ c.op = "upload"}) <= 1
       /\ files[i].stage = "stored" =>
            /\ <<files[i].bucket, files[i].key>> \in DOMAIN store
            /\ \E h \in CallsOf("headObject") : h.part = i
            /\ \E u \in CallsOf("upload") : u.part = i
  /\ (IsPost /\ AnsweredSuccess) => \A i \in StoredParts :
       /\ replies[1].res.payload[files[i].file.key].Bucket = files[i].bucket
       /\ replies[1].res.payload[files[i].file.key].Key = files[i].key
       /\ replies[1].via = "onResponse" =>
            \E j \in DOMAIN replies[1].options.uploads :
              /\ replies[1].options.uploads[j].file = files[i].file.key
              /\ replies[1].options.uploads[j].bucket = files[i].bucket
              /\ replies[1].options.uploads[j].key = files[i].key

\* a POST of two parts on the route with a key function and randomPostKeys,
\* answered 201: the key function was invoked once for each part and each
\* part was looked up, stored and reported under its randomized key
C26_Witness ==
  /\ IsPost /\ AnsweredSuccess
  /\ req.route.key.kind = "function" /\ req.route.randomPostKeys
  /\ Cardinality(StoredParts) = 2
  /\ \A i \in StoredParts :
       /\ Cardinality(Invocations("key", i)) = 1
       /\ files[i].key[Len(files[i].key)].b \in Tokens
       /\ \E h \in CallsOf("headObject"), u \in CallsOf("upload") :
            /\ h.part = i /\ u.part = i
            /\ h.key = files[i].key /\ u.key = files[i].key
       /\ replies[1].res.payload[files[i].file.key].Key = files[i].key

\* the stages in which the sub-pipeline of a part is still under way before
\* the store phase
UnderWay == {"file", "resolved", "checked", "typed"}

\* C27 as stated: the response of a POST, error or success, is emitted only
\* after the sub-pipeline of every part has reached a terminal state of the
\* validation phase and, once the store phase is entered, only after the
\* store of every part has reached a terminal state.
C27_Original ==
  (IsPost /\ Answered) =>
    /\ \A i \in Parts : files[i].stage \notin UnderWay
    /\ CallsOf("upload") # {} => \A i \in Parts : files[i].stage # "uploading"

\* C27: a success response of a POST is emitted only after every part has been
\* stored or dropped, and no store starts before every part is validated or
\* dropped; an error response is the error of a part that has failed and is
\* emitted without waiting for the other parts, which may still be under way.
C27_Barrier ==
  IsPost =>
    /\ AnsweredSuccess => \A i \in Parts : files[i].stage \in {"stored", "dropped"}
    /\ (\E i \in Parts : files[i].stage \in {"uploading", "stored"}) =>
         \A j \in Parts : files[j].stage \notin UnderWay \cup {"valid"}
    /\ (Answered /\ ~AnsweredSuccess) =>
         \E i \in Parts :
           /\ files[i].stage = "failed"
           /\ replies[1].error = BoomWrap(files[i].err)

\* the error of a failed part has been answered while the lookup of its
\* sibling has not returned
C27_Witness ==
  /\ IsPost /\ Answered /\ ~AnsweredSuccess
  /\ \E i, j \in Parts :
       /\ files[i].stage = "failed" /\ replies[1].error = BoomWrap(files[i].err)
       /\ files[j].stage = "resolved"

\* the error of a failed upload has been answered while the upload of its
\* sibling is still running
C27_WitnessStore ==
  /\ IsPost /\ Answered /\ ~AnsweredSuccess
  /\ \E i, j \in Parts :
       /\ files[i].stage = "failed" /\ files[i].failedAt = "uploadStream"
       /\ files[j].stage = "uploading"

\* a 201 for two stored parts
C27_WitnessSuccess ==
  /\ IsPost /\ AnsweredSuccess /\ Cardinality(StoredParts) = 2

\* what was recorded for part i: S3 calls and resolver invocations
CallsFor(i) == {c \in calls : c.part = i}

OpsFor(i) == {c.op : c \in CallsFor(i)}

\* C28: within the pipeline of one POST part the stages are strictly
\* sequential: the existence lookup is issued only for the resolved bucket and
\* key, content type and disposition are resolved only after the lookup has
\* reported "not found", validation follows that resolution and the store
\* follows validation; a failure in one stage prevents all later stages of
\* that part.
C28_Sequential ==
  IsPost => \A i \in Parts :
    LET f == files[i]
    IN  /\ "headObject" \in OpsFor(i) => KeyResolved(i)
        /\ ({"contentType", "filename"} \cap OpsFor(i) # {}
            \/ f.type # Undef \/ f.disposition # NoDisposition) =>
             /\ f.lookup = 404
             /\ "headObject" \in OpsFor(i)
        /\ (f.stage \in {"valid", "dropped", "uploading", "stored"}
            \/ (f.stage = "failed" /\ f.failedAt \in {"assertUploadIsValid", "uploadStream"})) =>
             /\ f.lookup = 404
             /\ req.route.contentType.kind = "function" => "contentType" \in OpsFor(i)
        /\ "upload" \in OpsFor(i) =>
             /\ f.stage \in {"uploading", "stored"}
                \/ (f.stage = "failed" /\ f.failedAt = "uploadStream")
             /\ f.lookup = 404
             /\ ~Ignored(i)
        /\ (f.stage = "failed" /\ f.failedAt = "getBucketAndKey") =>
             /\ OpsFor(i) \subseteq {"bucket", "key"}
             /\ f.lookup = 0
        /\ (f.stage = "failed" /\ f.failedAt = "assertObjectDoesNotExist") =>
             /\ OpsFor(i) \subseteq {"bucket", "key", "headObject"}
             /\ f.lookup # 404
             /\ f.type = Undef /\ f.disposition = NoDisposition
        /\ (f.stage = "failed"
            /\ f.failedAt \in {"getContentDispositionAndType", "assertUploadIsValid"}) =>
             "upload" \notin OpsFor(i)
        /\ f.stage = "dropped" => "upload" \notin OpsFor(i)

\* a part that went through every stage on the route whose bucket, key,
\* contentType and filename are functions
C28_Witness ==
  /\ IsPost
  /\ \E i \in Parts :
       /\ files[i].stage = "stored"
       /\ OpsFor(i) = {"bucket", "key", "headObject", "contentType", "filename", "upload"}

\* a part whose target exists: the lookup was made and nothing after it
C28_WitnessConflict ==
  /\ IsPost
  /\ \E i \in Parts :
       /\ files[i].stage = "failed" /\ files[i].failedAt = "assertObjectDoesNotExist"
       /\ files[i].err = Boom(409)
       /\ OpsFor(i) = {"bucket", "key", "headObject"}

\* the stored parts in the order of the payload
StoredInOrder == SelectSeq(files, LAMBDA f : f.stage = "stored")

\* what the response reports for a stored part: the target, and the resolved
\* content type and disposition when there is one
Reported(f) ==
  LET all == [Bucket |-> f.bucket, Key |-> f.key, ContentType |-> f.type,
              ContentDisposition |-> f.disposition]
  IN  [k \in {"Bucket", "Key"}
             \cup (IF f.type # Undef THEN {"ContentType"} ELSE {})
             \cup (IF f.disposition # NoDisposition THEN {"ContentDisposition"} ELSE {})
         |-> all[k]]

\* C29: for a POST in which all parts succeed the response payload, and the
\* order of the uploads in the options of onResponse, are the same for every
\* order in which the lookups and the stores of the parts complete: the
\* payload has the entry of each stored part under its form field name and
\* the uploads are listed in the order of the parts in the request.
C29_OrderFree ==
  (IsPost /\ AnsweredSuccess) =>
    /\ DOMAIN replies[1].res.payload =
         {StoredInOrder[j].file.key : j \in DOMAIN StoredInOrder}
    /\ \A j \in DOMAIN StoredInOrder :
         replies[1].res.payload[StoredInOrder[j].file.key] = Reported(StoredInOrder[j])
    /\ replies[1].via = "onResponse" =>
         /\ Len(replies[1].options.uploads) = Len(StoredInOrder)
         /\ \A j \in DOMAIN StoredInOrder :
              /\ replies[1].options.uploads[j].file = StoredInOrder[j].file.key
              /\ replies[1].options.uploads[j].bucket = StoredInOrder[j].bucket
              /\ replies[1].options.uploads[j].key = StoredInOrder[j].key
              /\ replies[1].options.uploads[j].data = Reported(StoredInOrder[j])

\* the upload of the second part completed before the upload of the first,
\* and onResponse got the uploads in the order of the parts
C29_Witness ==
  /\ IsPost /\ AnsweredSuccess /\ replies[1].via = "onResponse"
  /\ Len(files) = 2 /\ files[1].done = 2 /\ files[2].done = 1
  /\ replies[1].options.uploads[1].file = files[1].file.key
  /\ replies[1].options.uploads[2].file = files[2].file.key

\* the HTTP status codes of the errors the three pipelines answer with
ErrorStatuses == {403, 404, 409, 415, 422, 500}

\* the status the answer has for an S3 call that failed with a statusCode
\* (0: the error had none)
Kept(statusCode) == IF statusCode = 0 THEN 500 ELSE statusCode

\* C30: every failure that reaches the response strategy (the default reply
\* or onResponse) of the POST, GET or DELETE pipeline is an error object that
\* bears an HTTP status code: a storage error keeps the status code of the
\* backend, a storage error without one and every non-HTTP error (what a
\* resolver function throws or rejects with) becomes 500.
C30_HttpErrors ==
  /\ \A k \in DOMAIN replies : ~replies[k].error.none =>
       /\ replies[k].error.isBoom
       /\ replies[k].error.status \in ErrorStatuses
       /\ replies[k].via = "reply" => replies[k].code = replies[k].error.status
  /\ (Answered /\ ~AnsweredSuccess) =>
       /\ req.method = "delete" /\ one.outcome \notin {-1, 200} =>
            AnsweredError(Kept(one.outcome))
       /\ req.method = "get" /\ one.lookup \notin {0, 200} =>
            AnsweredError(one.lookup)
       /\ IsPost =>
            \E i \in Parts :
              /\ files[i].stage = "failed"
              /\ replies[1].error.status =
                   IF files[i].err.isBoom THEN files[i].err.status ELSE 500
       /\ (~IsPost /\ ~chainErr.isBoom /\ Len(replies) = 1) => AnsweredError(500)

\* the bucket function of a route rejected with a plain Error and the request
\* was answered 500
C30_Witness ==
  /\ Answered /\ AnsweredError(500) /\ replies[1].error.isBoom
  /\ req.route.bucket.kind = "function"
  /\ chainErr = PlainError

\* a DELETE whose deleteObject was denied with 403 is answered 403, one whose
\* error had no statusCode would be answered 500
C30_WitnessStorage ==
  /\ req.method = "delete" /\ one.outcome = 403 /\ AnsweredError(403)

\* the values internals.Modes admits
Modes == {"false", "auto", "attachment", "inline"}

\* Schemas.routeOptionsSchema, as far as it constrains the options modelled
\* here: whether Joi accepts the route options. `mode` is one of the Modes or
\* an object whose `get` and `post` are; `filename` is forbidden when `mode`
\* is (the literal) false, otherwise an optional function
routeOptionsSchema(o) ==
  /\ o.bucket.kind \in {"string", "function"}
  /\ o.key.kind \in {"none", "string", "function"}
  /\ IF o.mode.isObject
     THEN o.mode.per.get \in Modes /\ o.mode.per.post \in Modes
     ELSE o.mode.val \in Modes
  /\ (~o.mode.isObject /\ o.mode.val = "false") => ~o.filename
  /\ o.contentType.kind \in {"none", "string", "function"}

C31_Accepted == req.method # "none" => routeOptionsSchema(req.route)

\* what the bucket function resolved with when it was invoked at a site
BucketAnswers(site) == {c.bucket : c \in Invocations("bucket", site)}

\* the S3 operations issued for part i
S3OpsFor(i) == OpsFor(i) \cap {"headObject", "getObject", "upload", "deleteObject"}

\* a resolver function of the route answered with an empty value at the site
EmptyAnswer(site) == "" \in BucketAnswers(site) \/ <<>> \in KeyAnswers(site)

\* C32 as stated: no storage primitive is invoked with an empty bucket or
\* key, and when a bucket or key function yields an empty value the request
\* fails with a 500 error before any storage call for that target.
C32_Original ==
  /\ \A c \in S3Calls : c.bucket # "" /\ c.key # <<>>
  /\ \A site \in {0} \cup Parts : EmptyAnswer(site) =>
       /\ \A c \in S3Calls : c.part # site
       /\ Answered => AnsweredError(500)

\* C32: no storage primitive (head, get, put, delete) is ever invoked with an
\* empty bucket or key: a GET or DELETE whose resolved bucket or key is empty
\* is answered 500 without any storage call, and a POST part whose resolved
\* bucket or key (the key after the randomization of POST keys) is empty fails
\* with a 500 error without a storage call, so that the request is answered
\* with an error. Under randomPostKeys the empty answer of a key function
\* becomes the generated token, and the part is stored under it.
C32_NoEmptyTarget ==
  /\ \A c \in S3Calls : c.bucket # "" /\ c.key # <<>>
  /\ (req.method \in {"get", "delete"} /\ chain \notin {"idle", "getBucketAndKey"}
      /\ (one.bucket = "" \/ one.key = <<>>)) =>
       /\ S3Calls = {}
       /\ chain \in {"getObjectMetaData", "deleteObject", "rejected", "done"}
       /\ Answered => AnsweredError(500)
  /\ IsPost => \A i \in Parts :
       /\ (KeyResolved(i) /\ (files[i].bucket = "" \/ files[i].key = <<>>)) =>
            /\ S3OpsFor(i) = {}
            /\ files[i].stage \in {"resolved", "failed"}
            /\ files[i].stage = "failed" =>
                 /\ files[i].failedAt = "assertObjectDoesNotExist"
                 /\ files[i].err = BadImplementationError
            /\ ~AnsweredSuccess
       /\ (KeyResolved(i) /\ req.route.randomPostKeys) => files[i].key # <<>>

\* a GET on the route whose bucket function answers '' is answered 500 and
\* no call went to S3
C32_Witness ==
  /\ req.method = "get" /\ "" \in BucketAnswers(0) /\ one.key # <<>>
  /\ chain = "done" /\ AnsweredError(500) /\ S3Calls = {}

\* a POST part whose key function answers '' fails with the 500 of the
\* existence lookup
C32_WitnessPart ==
  /\ IsPost /\ AnsweredError(500)
  /\ \E i \in Parts :
       /\ KeyAnswers(i) = {<<>>} /\ files[i].bucket # ""
       /\ files[i].stage = "failed" /\ files[i].failedAt = "assertObjectDoesNotExist"
       /\ S3OpsFor(i) = {}

\* with randomPostKeys the part of a key function that answers '' is stored
\* under the token and the request is answered 201
C32_WitnessRandom ==
  /\ IsPost /\ AnsweredSuccess /\ req.route.randomPostKeys
  /\ \E i \in StoredParts :
       /\ KeyAnswers(i) = {<<>>}
       /\ files[i].key = <<Seg("rnd1", "")>>

\* the parts whose store failed
FailedStores ==
  {i \in Parts : files[i].stage = "failed" /\ files[i].failedAt = "uploadStream"}

\* C33 as stated: when the store of a part fails in a POST, no compensating
\* delete is issued, the request is answered with that failure, and the
\* objects stored by sibling parts remain in storage.
C33_Original ==
  IsPost =>
    /\ CallsOf("deleteObject") = {}
    /\ \A i \in StoredParts : <<files[i].bucket, files[i].key>> \in DOMAIN store
    /\ \A i \in FailedStores :
         Answered => replies[1].error = BoomWrap(files[i].err)

\* C33: when the store of a part fails in a POST, no compensating delete is
\* issued and the objects stored by sibling parts (and those stored before
\* the request) remain in storage; the request is answered with the failure
\* of a store, the first one when several stores fail.
C33_NoRollback ==
  IsPost =>
    /\ CallsOf("deleteObject") = {}
    /\ \A i \in StoredParts : <<files[i].bucket, files[i].key>> \in DOMAIN store
    /\ DOMAIN FixtureStore \subseteq DOMAIN store
    /\ FailedStores # {} =>
         /\ ~AnsweredSuccess
         /\ Answered => \E i \in FailedStores : replies[1].error = BoomWrap(files[i].err)

\* the failed store of one part has been answered with its 403 and the
\* object of its sibling is in the bucket
C33_Witness ==
  /\ IsPost /\ chain = "done" /\ AnsweredError(403)
  /\ \E i \in FailedStores, j \in StoredParts :
       /\ files[i].err = Boom(403)
       /\ <<files[j].bucket, files[j].key>> \in DOMAIN store
       /\ <<files[j].bucket, files[j].key>> \notin DOMAIN FixtureStore

\* the target part i resolved to
TargetOf(i) == <<files[i].bucket, files[i].key>>

\* C34 as stated: a POST never overwrites an object: of two parts of one
\* request that resolve to the same bucket and key at most one is stored, the
\* other is answered 409, and no part is stored over an object that was in
\* the bucket before the request.
C34_NeverOverwrites ==
  IsPost =>
    /\ \A i \in StoredParts : TargetOf(i) \notin DOMAIN FixtureStore
    /\ \A i, j \in StoredParts : i # j => TargetOf(i) # TargetOf(j)

\* the strategy threw when it was invoked with the success outcome: the catch
\* handler of the chain is about to run, or has run
ThrewOnSuccess ==
  /\ Answered /\ replies[1].error.none
  /\ chain = "rejected" \/ Len(replies) > 1

\* C35: for every request, in every interleaving of the outcomes of its parts
\* (several failing parts included), the response strategy is invoked exactly
\* once as long as the strategy does not throw; when onResponse throws on the
\* success outcome the catch handler of the pipeline invokes the strategy a
\* second time, with the wrapped error (a 500).
C35_OnceOrTwice ==
  /\ Len(replies) <= 2
  /\ chain = "done" => Len(replies) = IF ThrewOnSuccess THEN 2 ELSE 1
  /\ chain \notin {"done", "rejected"} => replies = <<>>
  /\ (chain = "rejected" /\ Answered) =>
       /\ Len(replies) = 1 /\ replies[1].error.none
       /\ req.route.onResponse /\ chainErr = PlainError
  /\ Len(replies) = 2 =>
       /\ replies[1].error.none /\ replies[1].via = "onResponse"
       /\ replies[2].via = "onResponse"
       /\ replies[2].error = Boom(500)
       /\ replies[2].res = NullResult
  /\ (Answered /\ ~replies[1].error.none) => Len(replies) = 1

\* onResponse threw on the 201 of a POST and was invoked again with the 500
C35_Witness ==
  /\ IsPost /\ chain = "done" /\ Len(replies) = 2
  /\ replies[1].error.none /\ replies[2].error = Boom(500)

\* both parts of a POST failed and the request was answered once
C35_WitnessFailures ==
  /\ IsPost /\ chain = "done" /\ Len(replies) = 1
  /\ Len(files) = 2 /\ files[1].stage = "failed" /\ files[2].stage = "failed"
  /\ files[1].err # files[2].err

\* C36: a POST whose payload has no parts performs no storage call and no
\* validation and is answered with success, 201 and an empty mapping (or
\* onResponse with the empty mapping, no uploads and defaultStatusCode 201),
\* whatever the content-type header of the request is, a missing or
\* non-multipart one included.
C36_NoParts ==
  (IsPost /\ Parts = {}) =>
    /\ calls = {}
    /\ store = FixtureStore
    /\ chain \in {"prepareFiles", "uploadFiles", "done"} \/ ThrewOnSuccess
    /\ Answered =>
         /\ replies[1].error.none
         /\ replies[1].res.kind = "payload"
         /\ DOMAIN replies[1].res.payload = {}
         /\ IF replies[1].via = "reply" THEN replies[1].code = 201
            ELSE /\ replies[1].options.uploads = <<>>
                 /\ replies[1].options.defaultStatusCode = 201

\* a POST without parts and with the content type application/json, answered 201
C36_Witness ==
  /\ IsPost /\ Parts = {} /\ req.contentType = "application/json"
  /\ chain = "done" /\ Len(replies) = 1
  /\ replies[1].via = "reply" /\ replies[1].code = 201

\* the same without any content-type header
C36_WitnessMissing ==
  /\ IsPost /\ Parts = {} /\ req.contentType = Undef
  /\ chain = "done" /\ AnsweredSuccess

\* ------------------------------------------- the stream fetch of a GET, by event
\* largest number of body chunks of an object
MaxChunks == 1

\* a GET is received
ReceiveGet ==
  /\ Receive
  /\ req'.method = "get"

\* internals.getObjectStream up to req.send(): the guard on bucket and key,
\* then the request is sent and the promise is pending
SendGetObject ==
  /\ req.method = "get"
  /\ chain = "getObjectStream"
  /\ one.fetch.state = "none"
  /\ IF IssuesCall(one.bucket, one.key)
     THEN /\ calls' = calls \cup {Call("getObject", 0, one.bucket, one.key,
                                       Undef, NoDisposition)}
          /\ one' = [one EXCEPT !.fetch.state = "sent"]
          /\ UNCHANGED <<chain, chainErr>>
     ELSE /\ chain' = "rejected"
          /\ chainErr' = BadImplementationError
          /\ one' = [one EXCEPT !.fetch.state = "rejected"]
          /\ UNCHANGED calls
  /\ UNCHANGED <<history, store, req, files, replies>>

\* the listener of 'httpHeaders': a status >= 400 rejects with that status,
\* any other resolves with the headers and the passthrough stream; settling a
\* promise that is settled already has no effect
OnHttpHeaders ==
  /\ req.method = "get"
  /\ one.fetch.state # "none"
  /\ one.fetch.headers = 0 /\ one.fetch.error = -1
  /\ \E statusCode \in {200} \cup (S3ErrorStatuses \ {0}) :
       LET data == getObjectStream(store, one.bucket, one.key, statusCode)
           seen == IF data.ok THEN 200 ELSE data.err.status
       IN  /\ one' = [one EXCEPT
                        !.fetch.headers = seen,
                        !.fetch.first = IF @ = "" THEN "httpHeaders" ELSE @,
                        !.fetch.state = IF @ # "sent" THEN @
                                        ELSE IF data.ok THEN "resolved" ELSE "rejected"]
           /\ IF one.fetch.state = "sent"
              THEN /\ chain' = IF data.ok THEN "replyWithStream" ELSE "rejected"
                   /\ chainErr' = IF data.ok THEN chainErr ELSE data.err
              ELSE UNCHANGED <<chain, chainErr>>
  /\ UNCHANGED <<history, store, req, files, calls, replies>>

\* a listener of 'error' that also ends the passthrough stream
OnError_End ==
  /\ req.method = "get"
  /\ one.fetch.state # "none"
  /\ one.fetch.error = -1 /\ one.fetch.endedBy = ""
  /\ \E statusCode \in S3ErrorStatuses :
       /\ one' = [one EXCEPT
                    !.fetch.error = statusCode,
                    !.fetch.endedBy = "error",
                    !.fetch.first = IF @ = "" THEN "error" ELSE @,
                    !.fetch.state = IF @ = "sent" THEN "rejected" ELSE @]
       /\ IF one.fetch.state = "sent"
          THEN /\ chain' = "rejected"
               /\ chainErr' = S3Error(statusCode)
          ELSE UNCHANGED <<chain, chainErr>>
  /\ UNCHANGED <<history, store, req, files, calls, replies>>

\* the listener of 'error': rejects with the wrapped error; it does not touch
\* the passthrough stream, and no event follows an error
OnError ==
  /\ req.method = "get"
  /\ one.fetch.state # "none"
  /\ one.fetch.error = -1 /\ one.fetch.endedBy = ""
  /\ \E statusCode \in S3ErrorStatuses :
       /\ one' = [one EXCEPT
                    !.fetch.error = statusCode,
                    !.fetch.first = IF @ = "" THEN "error" ELSE @,
                    !.fetch.state = IF @ = "sent" THEN "rejected" ELSE @]
       /\ IF one.fetch.state = "sent"
          THEN /\ chain' = "rejected"
               /\ chainErr' = S3Error(statusCode)
          ELSE UNCHANGED <<chain, chainErr>>
  /\ UNCHANGED <<history, store, req, files, calls, replies>>

\* the listener of 'httpData': the chunk is written to the passthrough stream
OnHttpData ==
  /\ req.method = "get"
  /\ one.fetch.headers # 0 /\ one.fetch.error = -1 /\ one.fetch.endedBy = ""
  /\ one.fetch.chunks < MaxChunks
  /\ one' = [one EXCEPT !.fetch.chunks = @ + 1]
  /\ UNCHANGED <<history, store, req, chain, chainErr, files, calls, replies>>

\* the listener of 'httpDone': the passthrough stream is ended
OnHttpDone ==
  /\ req.method = "get"
  /\ one.fetch.headers # 0 /\ one.fetch.error = -1 /\ one.fetch.endedBy = ""
  /\ one' = [one EXCEPT !.fetch.endedBy = "httpDone"]
  /\ UNCHANGED <<history, store, req, chain, chainErr, files, calls, replies>>

StreamNext ==
  \/ ReceiveGet
  \/ ServeGetBucketAndKey
  \/ ServeGetObjectMetaData
  \/ ServeGetContentDispositionAndType
  \/ SendGetObject
  \/ OnHttpHeaders
  \/ OnError
  \/ OnHttpData
  \/ OnHttpDone
  \/ ServeReplyWithStream
  \/ ServeReplyWithError

StreamSpec == Init /\ [][StreamNext]_vars

\* C37: in the stream fetch of a GET the outcome is fixed by the first of the
\* storage events 'error' and 'httpHeaders': headers with a status >= 400 fail
\* the request with that status, an error before the headers fails it with the
\* wrapped error (its statusCode, 500 without one), and after headers with a
\* status < 400 the fetch has succeeded and stays so: a later 'error' neither
\* changes the success answer nor ends the body stream, which only 'httpDone'
\* ends.
C37_FirstEvent ==
  LET f == one.fetch
  IN  /\ (f.first = "httpHeaders" /\ f.headers >= 400) =>
           /\ f.state = "rejected"
           /\ chain = "rejected" => chainErr = Boom(f.headers)
           /\ Answered => AnsweredError(f.headers) /\ Len(replies) = 1
      /\ f.first = "error" =>
           /\ f.state = "rejected"
           /\ chain = "rejected" => chainErr = S3Error(f.error)
           /\ Answered => AnsweredError(Kept(f.error)) /\ Len(replies) = 1
      /\ (f.first = "httpHeaders" /\ f.headers < 400) =>
           /\ f.state = "resolved"
           /\ chain = "rejected" => ThrewOnSuccess
           /\ Answered => AnsweredSuccess
           /\ Len(replies) > 1 => ThrewOnSuccess
      /\ f.endedBy \in {"", "httpDone"}
      /\ f.error # -1 => f.endedBy = ""

\* the success answer was emitted, then the 'error' event arrived in the
\* middle of the body: the answer stands and the stream is still open
C37_Witness ==
  /\ one.fetch.first = "httpHeaders" /\ one.fetch.headers = 200
  /\ one.fetch.chunks > 0
  /\ one.fetch.error # -1
  /\ AnsweredSuccess /\ Len(replies) = 1 /\ chain = "done"
  /\ one.fetch.endedBy = ""

C37_WitnessHeaders ==
  /\ one.fetch.first = "httpHeaders" /\ one.fetch.headers = 403
  /\ one.fetch.error # -1
  /\ AnsweredError(403)

C37_WitnessError ==
  /\ one.fetch.first = "error" /\ one.fetch.error = 0
  /\ AnsweredError(500)

C37_WitnessDone ==
  /\ one.fetch.endedBy = "httpDone" /\ AnsweredSuccess

\* the key a GET or DELETE resolves to: the answer of the key function, or the
\* join of the literal key and the path parameter
LookupKeys ==
  IF req.route.key.kind = "function" THEN KeyAnswers(0) ELSE {Prefix \o req.path}

\* C38: the randomization of keys applies to POST only: on a route with
\* randomPostKeys set, the key of a GET or DELETE is the answer of the key
\* function, or the join of the literal key and the path parameter, without a
\* generated token, and that is the key of every S3 call of the request.
C38_PostOnly ==
  (req.method \in {"get", "delete"} /\ req.route.randomPostKeys) =>
    /\ chain \notin {"getBucketAndKey", "rejected"} => one.key \in LookupKeys
    /\ one.key # <<>> => one.key \in LookupKeys
    /\ \A k \in DOMAIN one.key : one.key[k].b \notin Tokens
    /\ \A c \in S3Calls : c.key \in LookupKeys /\ c.key = one.key

\* a GET on the route with randomPostKeys and the prefix 'files2' was answered
\* with the object under prefix/path
C38_Witness ==
  /\ req.method = "get" /\ req.route.randomPostKeys
  /\ req.route.key.kind = "string" /\ req.path = <<Seg("1", "pdf")>>
  /\ one.key = <<Seg("files2", ""), Seg("1", "pdf")>>
  /\ \E c \in CallsOf("getObject") : c.key = one.key
  /\ AnsweredSuccess

\* a DELETE on a route with randomPostKeys and a key function deleted the
\* object under the key the function answered with
C38_WitnessDelete ==
  /\ req.method = "delete" /\ req.route.randomPostKeys
  /\ req.route.key.kind = "function"
  /\ one.key = ExistingKey
  /\ \E c \in CallsOf("deleteObject") : c.key = ExistingKey
  /\ AnsweredSuccess

\* --------------------------------------------------------------------- progress
\* every resolver invocation and every S3 call of the request completes, and
\* a handler of a settled promise runs: a step of the pipeline that can be
\* taken is taken
LiveSpec == Init /\ [][Next]_vars /\ WF_vars(Next)

\* C39: for GET, POST and DELETE, when every resolver invocation and every
\* storage call of the request completes, a received request leads to an
\* invocation of the response strategy.
C39_Answers == (req.method # "none") ~> Answered

\* the two parts of a POST failed at different stages and the request was
\* answered
C39_Witness ==
  /\ IsPost /\ Answered /\ Len(files) = 2
  /\ files[1].stage = "failed" /\ files[2].stage = "failed"
  /\ files[1].failedAt # files[2].failedAt

====
